---------------------------- MODULE Spec2Model ----------------------------
(***************************************************************************)
(* Model of ncmonitor (name-confusion detector over auditd logs).          *)
(*                                                                         *)
(* Strings that the program inspects character by character (paths, the    *)
(* working directory, the mode field) are sequences of one-character       *)
(* strings; strings that are only compared or concatenated (record type,   *)
(* nametype, device, inode number) are TLA+ strings.                       *)
(***************************************************************************)
EXTENDS Integers, Sequences, FiniteSets, TLC

(***************************************************************************)
(* Bounds of the model.                                                    *)
(***************************************************************************)
\* number of Inodes applied against a Timeline in the Timeline specification
MaxApply == 3
\* number of lines of the log file in the pipeline specification
MaxLines == 7
\* number of characters of a path in the normalization specification
MaxPathLen == 4
\* number of tokens of a line's header, and of its body, in the parser
\* specification
MaxHeaderTokens == 3
MaxBodyTokens == 2
\* number of lines of the log file in the file specification
MaxFileLen == 4
\* number of lines of the log file in the fair file specification
MaxFairFileLen == 3

(***************************************************************************)
(* Character-level string helpers (Go's strings and path packages).        *)
(***************************************************************************)
\* strings.TrimSuffix(s, c) for a one-character suffix
TrimSuffix(s, c) ==
    IF Len(s) > 0 /\ s[Len(s)] = c THEN SubSeq(s, 1, Len(s) - 1) ELSE s

RECURSIVE TrimLeft(_, _)
TrimLeft(s, c) ==
    IF Len(s) > 0 /\ Head(s) = c THEN TrimLeft(Tail(s), c) ELSE s

RECURSIVE TrimRight(_, _)
TrimRight(s, c) ==
    IF Len(s) > 0 /\ s[Len(s)] = c
    THEN TrimRight(SubSeq(s, 1, Len(s) - 1), c)
    ELSE s

\* strings.Trim(s, c) for a one-character cutset
Trim(s, c) == TrimRight(TrimLeft(s, c), c)

\* the elements of s between separators "/" (strings.Split(s, "/"))
RECURSIVE SplitSlash(_, _)
SplitSlash(s, cur) ==
    IF Len(s) = 0 THEN <<cur>>
    ELSE IF Head(s) = "/" THEN <<cur>> \o SplitSlash(Tail(s), <<>>)
    ELSE SplitSlash(Tail(s), Append(cur, Head(s)))

\* path.Clean's element stack: "" and "." are dropped, ".." pops the previous
\* element, or is kept at the start of a path that is not rooted
RECURSIVE CleanElems(_, _, _)
CleanElems(elems, stack, rooted) ==
    IF Len(elems) = 0 THEN stack
    ELSE LET e == Head(elems)
             rest == Tail(elems)
         IN  IF e = <<>> \/ e = <<".">> THEN CleanElems(rest, stack, rooted)
             ELSE IF e = <<".", ".">>
             THEN IF Len(stack) > 0 /\ stack[Len(stack)] # <<".", ".">>
                  THEN CleanElems(rest, SubSeq(stack, 1, Len(stack) - 1), rooted)
                  ELSE IF rooted THEN CleanElems(rest, stack, rooted)
                  ELSE CleanElems(rest, Append(stack, e), rooted)
             ELSE CleanElems(rest, Append(stack, e), rooted)

RECURSIVE JoinSlash(_)
JoinSlash(elems) ==
    IF Len(elems) = 0 THEN <<>>
    ELSE IF Len(elems) = 1 THEN Head(elems)
    ELSE Head(elems) \o <<"/">> \o JoinSlash(Tail(elems))

\* path.Clean(p)
Clean(p) ==
    IF Len(p) = 0 THEN <<".">>
    ELSE LET rooted == Head(p) = "/"
             stack == CleanElems(SplitSlash(p, <<>>), <<>>, rooted)
         IN  IF rooted THEN <<"/">> \o JoinSlash(stack)
             ELSE IF Len(stack) = 0 THEN <<".">>
             ELSE JoinSlash(stack)

\* path.Join(a, b): empty elements are ignored, the result is cleaned
PathJoin(a, b) ==
    IF Len(a) = 0 /\ Len(b) = 0 THEN <<>>
    ELSE IF Len(a) = 0 THEN Clean(b)
    ELSE IF Len(b) = 0 THEN Clean(a)
    ELSE Clean(a \o <<"/">> \o b)

\* x & y on naturals
RECURSIVE BitAnd(_, _)
BitAnd(x, y) ==
    IF x = 0 \/ y = 0 THEN 0
    ELSE (x % 2) * (y % 2) + 2 * BitAnd(x \div 2, y \div 2)


(***************************************************************************)
(* Inode: one path operation (a PathAction).  Syscall is the embedded      *)
(* Syscall of the event; Mode is the uint16 the mode field was cut to.     *)
(***************************************************************************)
\* the sentinel path of a syscall that addressed the object by descriptor
NullPath == <<"(", "n", "u", "l", "l", ")">>

\* Inode.Name: unique name of the file object
Name(i) == i.Device \o "|" \o i.InodeNum

\* Inode.getAbsPath: relative paths are joined onto the working directory
getAbsPath(i) ==
    IF Len(Trim(i.Cwd, " ")) = 0 \/ Len(Trim(i.Path, " ")) = 0 THEN i.Path
    ELSE IF i.Path[1] = "/" \/ i.Path = NullPath THEN i.Path
    ELSE PathJoin(i.Cwd, i.Path)

\* Inode.IsDir: the mask is the decimal literal 40000 of the source
IsDir(i) == BitAnd(i.Mode, 40000) > 1

\* Inode.NormalizedPath: the trailing "/" is removed only for a directory
NormalizedPath(i) ==
    IF IsDir(i) THEN TrimSuffix(getAbsPath(i), "/") ELSE getAbsPath(i)

(***************************************************************************)
(* State.                                                                  *)
(***************************************************************************)
VARIABLES
    flagJson,   \* -json: collect the violations and dump them at Close
    history,    \* Timeline.history: Name -> the recorded CREATE Inode
    reports,    \* Timeline.reports: the collected Reports (json mode)
    stdout,     \* what has been written to standard output, in order
    status,     \* "run", "fatal" (log.Fatal: exit 1) or "done" (ParseLog returned)
    applied,    \* log of the calls of Timeline.Apply, in call order
    lines,      \* the lines of the log file that have been consumed, in order
    rs,         \* the Records of the event being assembled
    inodes,     \* the Inodes ApplyInodes is iterating over; <<>> outside of it
    idx,        \* the number of calls of Apply the running ApplyInodes has made
    events,     \* log of the Inodes lists GetInodes returned, in call order
    input,      \* what the run is given: the log file, or a function's argument
    output      \* the results of the function calls made on input, in call order

vars == <<flagJson, history, reports, stdout, status, applied, lines, rs,
          inodes, idx, events, input, output>>

tmVars == <<history, reports, stdout>>
logVars == <<lines, rs, inodes, idx, events>>

\* NewTimeline
NewTimeline == [n \in {} |-> 0]

\* Records{}
NewRecords == [Records |-> <<>>, Timestamp |-> <<>>]

(***************************************************************************)
(* Timeline.Apply                                                          *)
(***************************************************************************)
\* recordCreate without the test of the syscall's success
recordCreateFailedToo(h, i) ==
    IF i.Path = NullPath THEN h
    ELSE [n \in DOMAIN h \cup {Name(i)} |-> IF n = Name(i) THEN i ELSE h[n]]

\* recordCreate without the test for the path "(null)"
recordCreateNullToo(h, i) ==
    IF ~i.Syscall.Success THEN h
    ELSE [n \in DOMAIN h \cup {Name(i)} |-> IF n = Name(i) THEN i ELSE h[n]]

\* recordCreate that keeps a CREATE already recorded (first writer wins)
recordCreateKeepFirst(h, i) ==
    IF ~i.Syscall.Success THEN h
    ELSE IF i.Path = NullPath THEN h
    ELSE IF Name(i) \in DOMAIN h THEN h
    ELSE [n \in DOMAIN h \cup {Name(i)} |-> IF n = Name(i) THEN i ELSE h[n]]

\* recordCreate closure of Timeline.Apply: the history afterwards
recordCreate(h, i) ==
    IF ~i.Syscall.Success THEN h
    ELSE IF i.Path = NullPath THEN h
    ELSE [n \in DOMAIN h \cup {Name(i)} |-> IF n = Name(i) THEN i ELSE h[n]]

\* strings.HasSuffix(s, suffix)
HasSuffix(s, suffix) ==
    Len(suffix) <= Len(s) /\ SubSeq(s, Len(s) - Len(suffix) + 1, Len(s)) = suffix

\* verifyUse that lets a path pass when it is a suffix of the other one
verifyUseSuffixOk(h, i) ==
    IF ~i.Syscall.Success THEN <<>>
    ELSE IF i.Path = NullPath THEN <<>>
    ELSE IF Name(i) \notin DOMAIN h THEN <<>>
    ELSE LET cPATH == NormalizedPath(h[Name(i)])
             uPATH == NormalizedPath(i)
         IN  IF cPATH = uPATH \/ HasSuffix(cPATH, uPATH) \/ HasSuffix(uPATH, cPATH)
             THEN <<>>
             ELSE <<[Create |-> h[Name(i)], Use |-> i]>>

\* verifyUse that compares the paths as they are in the log
verifyUseRawPath(h, i) ==
    IF ~i.Syscall.Success THEN <<>>
    ELSE IF i.Path = NullPath THEN <<>>
    ELSE IF Name(i) \notin DOMAIN h THEN <<>>
    ELSE IF h[Name(i)].Path # i.Path
         THEN <<[Create |-> h[Name(i)], Use |-> i]>>
         ELSE <<>>

\* verifyUse closure of Timeline.Apply: the Reports it makes (none or one)
verifyUse(h, i) ==
    IF ~i.Syscall.Success THEN <<>>
    ELSE IF i.Path = NullPath THEN <<>>
    ELSE IF Name(i) \notin DOMAIN h THEN <<>>
    ELSE IF NormalizedPath(h[Name(i)]) # NormalizedPath(i)
         THEN <<[Create |-> h[Name(i)], Use |-> i]>>
         ELSE <<>>

\* a delete that leaves the history as it is
deleteNothing(h, i) == h

\* a delete that clears the whole history
deleteEveryName(h, i) == [n \in {} |-> 0]

\* a delete that a failed syscall skips
deleteIfSuccess(h, i) ==
    IF ~i.Syscall.Success THEN h ELSE [n \in DOMAIN h \ {Name(i)} |-> h[n]]

\* delete(tm.history, name)
deleteName(h, i) == [n \in DOMAIN h \ {Name(i)} |-> h[n]]

\* the operations the switch of Timeline.Apply knows
Operations == {"CREATE", "PARENT", "NORMAL", "DELETE", "UNKNOWN"}

\* a Report whose ReportLater keeps only the Report made last
ReportLaterKeepsLast(rep) ==
    IF flagJson
    THEN /\ reports' = IF rep = <<>> THEN reports ELSE rep
         /\ UNCHANGED stdout
    ELSE /\ stdout' = stdout \o [k \in 1..Len(rep) |->
                         [kind |-> "line", Create |-> rep[k].Create, Use |-> rep[k].Use]]
         /\ UNCHANGED reports

\* Timeline.Report: ReportLater in json mode, else ReportImmediatly
Report(rep) ==
    IF flagJson
    THEN /\ reports' = reports \o rep
         /\ UNCHANGED stdout
    ELSE /\ stdout' = stdout \o [k \in 1..Len(rep) |->
                         [kind |-> "line", Create |-> rep[k].Create, Use |-> rep[k].Use]]
         /\ UNCHANGED reports

\* an Apply whose default branch does nothing, as for UNKNOWN
ApplyDefaultUnknown(i) ==
    /\ applied' = Append(applied, i)
    /\ CASE i.Operation = "CREATE" ->
              /\ history' = recordCreate(history, i)
              /\ UNCHANGED <<reports, stdout, status>>
         [] i.Operation \in {"PARENT", "NORMAL"} ->
              /\ Report(verifyUse(history, i))
              /\ UNCHANGED <<history, status>>
         [] i.Operation = "DELETE" ->
              /\ history' = deleteName(history, i)
              /\ UNCHANGED <<reports, stdout, status>>
         [] OTHER ->
              UNCHANGED <<history, reports, stdout, status>>

\* an Apply that forgets the recorded CREATE once it has reported it
ApplyReportForgets(i) ==
    /\ applied' = Append(applied, i)
    /\ CASE i.Operation = "CREATE" ->
              /\ history' = recordCreate(history, i)
              /\ UNCHANGED <<reports, stdout, status>>
         [] i.Operation \in {"PARENT", "NORMAL"} ->
              /\ Report(verifyUse(history, i))
              /\ history' = IF verifyUse(history, i) = <<>> THEN history
                            ELSE deleteName(history, i)
              /\ UNCHANGED status
         [] i.Operation = "DELETE" ->
              /\ history' = deleteName(history, i)
              /\ UNCHANGED <<reports, stdout, status>>
         [] i.Operation = "UNKNOWN" ->
              UNCHANGED <<history, reports, stdout, status>>
         [] OTHER ->
              /\ status' = "fatal"
              /\ UNCHANGED <<history, reports, stdout>>

\* an Apply whose CREATE is verified against the recorded CREATE as a use is
ApplyCreateVerified(i) ==
    /\ applied' = Append(applied, i)
    /\ CASE i.Operation = "CREATE" ->
              /\ Report(verifyUse(history, i))
              /\ history' = recordCreate(history, i)
              /\ UNCHANGED status
         [] i.Operation \in {"PARENT", "NORMAL"} ->
              /\ Report(verifyUse(history, i))
              /\ UNCHANGED <<history, status>>
         [] i.Operation = "DELETE" ->
              /\ history' = deleteName(history, i)
              /\ UNCHANGED <<reports, stdout, status>>
         [] i.Operation = "UNKNOWN" ->
              UNCHANGED <<history, reports, stdout, status>>
         [] OTHER ->
              /\ status' = "fatal"
              /\ UNCHANGED <<history, reports, stdout>>

\* Timeline.Apply(i): one Inode against the timeline
Apply(i) ==
    /\ applied' = Append(applied, i)
    /\ CASE i.Operation = "CREATE" ->
              /\ history' = recordCreate(history, i)
              /\ UNCHANGED <<reports, stdout, status>>
         [] i.Operation \in {"PARENT", "NORMAL"} ->
              /\ Report(verifyUse(history, i))
              /\ UNCHANGED <<history, status>>
         [] i.Operation = "DELETE" ->
              /\ history' = deleteName(history, i)
              /\ UNCHANGED <<reports, stdout, status>>
         [] i.Operation = "UNKNOWN" ->
              UNCHANGED <<history, reports, stdout, status>>
         [] OTHER ->
              /\ status' = "fatal"
              /\ UNCHANGED <<history, reports, stdout>>


(***************************************************************************)
(* Records, NewInode, GetInodes.  A line of the log is given by what       *)
(* NewRecord parses it to: kind "record" with Type, Msg and Body; or it is *)
(* the separator, an empty line, or a time-> line.  Body values that the   *)
(* program inspects by character (name, cwd, mode) are character           *)
(* sequences, still quoted as in the log.                                  *)
(***************************************************************************)
\* the zero Record (no such record in the event)
ZeroRecord == [Type |-> "", Msg |-> "", Timestamp |-> <<>>, Body |-> [k \in {} |-> ""]]

\* r.Body[k] for a value used as a whole; "" when the key is missing
BodyStr(r, k) == IF k \in DOMAIN r.Body THEN r.Body[k] ELSE ""

\* r.Body[k] for a value inspected by character; "" when the key is missing
BodyChars(r, k) == IF k \in DOMAIN r.Body THEN r.Body[k] ELSE <<>>

Digits == {"0", "1", "2", "3", "4", "5", "6", "7", "8", "9"}

DigitVal(c) == CHOOSE d \in 0..9 : <<"0", "1", "2", "3", "4", "5", "6", "7", "8", "9">>[d + 1] = c

RECURSIVE DecimalValue(_, _)
DecimalValue(s, acc) ==
    IF Len(s) = 0 THEN acc ELSE DecimalValue(Tail(s), 10 * acc + DigitVal(Head(s)))

\* strconv.Atoi with the error dropped: base 10, an optional sign, 0 when
\* the string is not a number
Atoi(s) ==
    LET neg == Len(s) > 0 /\ Head(s) = "-"
        body == IF Len(s) > 0 /\ Head(s) \in {"-", "+"} THEN Tail(s) ELSE s
    IN  IF Len(body) = 0 \/ \E k \in 1..Len(body) : body[k] \notin Digits THEN 0
        ELSE IF neg THEN 0 - DecimalValue(body, 0) ELSE DecimalValue(body, 0)

\* uint16(mode)
Uint16(n) == n % 65536

\* NewSyscall: the fields of Syscall that Timeline.Apply reads
NewSyscall(r) == [Success |-> BodyStr(r, "success") = "yes"]

\* NewSyscall aborts the run when the record is not a SYSCALL record
NewSyscallFatal(r) == r.Type # "SYSCALL"

\* NewInode(syscall, proctitle, cwd, path)
NewInode(syscall, proctitle, cwd, path) ==
    [Timestamp |-> path.Timestamp,
     Device |-> BodyStr(path, "dev"),
     InodeNum |-> BodyStr(path, "inode"),
     Path |-> Trim(BodyChars(path, "name"), "\""),
     Mode |-> Uint16(Atoi(BodyChars(path, "mode"))),
     Operation |-> BodyStr(path, "nametype"),
     Syscall |-> NewSyscall(syscall),
     Cwd |-> Trim(BodyChars(cwd, "cwd"), "\"")]

\* the last record of the given type in the event, else the zero Record
LastOfType(records, type) ==
    LET S == {k \in 1..Len(records) : records[k].Type = type}
    IN  IF S = {} THEN ZeroRecord
        ELSE records[CHOOSE k \in S : \A j \in S : j <= k]

\* the PATH records of the event, in order
RECURSIVE PathRecords(_)
PathRecords(records) ==
    IF Len(records) = 0 THEN <<>>
    ELSE IF Head(records).Type = "PATH"
         THEN <<Head(records)>> \o PathRecords(Tail(records))
         ELSE PathRecords(Tail(records))

\* Records.GetInodes: one Inode per PATH record, in the order of the records
GetInodes(r) ==
    LET paths == PathRecords(r.Records)
    IN  [k \in 1..Len(paths) |->
            NewInode(LastOfType(r.Records, "SYSCALL"),
                     LastOfType(r.Records, "PROCTITLE"),
                     LastOfType(r.Records, "CWD"), paths[k])]

\* a GetInodes that builds the Inodes from the zero Record when the Event
\* has no SYSCALL record
GetInodesZeroSyscall(r) == FALSE

\* GetInodes aborts the run in NewSyscall: a PATH record and no SYSCALL record
GetInodesFatal(r) ==
    /\ PathRecords(r.Records) # <<>>
    /\ NewSyscallFatal(LastOfType(r.Records, "SYSCALL"))

\* Records.AddLine for a line that is not the separator
AddLine(r, line) ==
    IF line.kind = "empty" THEN r
    ELSE IF line.kind = "time" THEN [r EXCEPT !.Timestamp = line.rest]
    ELSE [r EXCEPT !.Records =
             Append(@, [Type |-> line.Type, Msg |-> line.Msg,
                        Timestamp |-> r.Timestamp, Body |-> line.Body])]

\* a Close that serializes the Reports also when there are none
CloseEvenIfEmpty ==
    stdout' = Append(stdout, [kind |-> "json", reports |-> reports])

\* Timeline.Close: processPendingRepots writes the collected Reports, if any
Close ==
    IF Len(reports) = 0 THEN UNCHANGED stdout
    ELSE stdout' = Append(stdout, [kind |-> "json", reports |-> reports])

(***************************************************************************)
(* Specification Spec: a Timeline, and Inodes applied against it one by    *)
(* one (any sequence of PathActions, MaxApply long).                       *)
(***************************************************************************)
Chars(dir, base) == <<"/">> \o dir \o <<"/">> \o base

\* an Inode as NewInode builds it, by the fields Timeline.Apply reads
Ino(op, ino, path, mode, success, cwd) ==
    [Timestamp |-> <<>>, Device |-> "08:01", InodeNum |-> ino, Path |-> path,
     Mode |-> mode, Operation |-> op, Syscall |-> [Success |-> success],
     Cwd |-> cwd]

PathName == Chars(<<"d">>, <<"n">>)           \* /d/n
PathNAME == Chars(<<"d">>, <<"N">>)           \* /d/N
PathSuffix == <<"/", "n">>                    \* /n, a suffix of /d/n
PathRel == <<"n">>                            \* n, /d/n when joined onto /d
PathSlash == PathName \o <<"/">>              \* /d/n/
CwdD == <<"/", "d">>                          \* /d

\* the Mode of a PATH record with mode=040755
DirMode == Uint16(Atoi(<<"0", "4", "0", "7", "5", "5">>))

\* the Inodes the Timeline specification applies
TimelineInodes ==
    {Ino("CREATE", "100", p, 0, TRUE, CwdD) : p \in {PathName, PathNAME, NullPath}}
    \cup {Ino("CREATE", "100", PathName, 0, FALSE, CwdD)}
    \cup {Ino("NORMAL", "100", p, 0, TRUE, CwdD) :
            p \in {PathName, PathNAME, PathSuffix, PathRel, NullPath}}
    \cup {Ino("NORMAL", "100", PathSlash, m, TRUE, CwdD) : m \in {0, DirMode}}
    \cup {Ino("NORMAL", "100", PathRel, 0, TRUE, <<>>)}
    \cup {Ino("CREATE", "100", PathSlash, DirMode, TRUE, CwdD)}
    \cup {Ino("NORMAL", "100", PathNAME, 0, FALSE, CwdD)}
    \cup {Ino("PARENT", "100", PathNAME, 0, TRUE, CwdD)}
    \cup {Ino("DELETE", "100", PathName, 0, TRUE, CwdD)}
    \cup {Ino("DELETE", "100", NullPath, 0, FALSE, CwdD)}
    \cup {Ino("UNKNOWN", "100", PathNAME, 0, TRUE, CwdD)}
    \cup {Ino("CREATE", "200", PathNAME, 0, TRUE, CwdD)}
    \cup {Ino("NORMAL", "200", PathName, 0, TRUE, CwdD)}
    \cup {Ino("", "100", PathNAME, 0, TRUE, CwdD)}

Init ==
    /\ flagJson \in BOOLEAN
    /\ history = NewTimeline
    /\ reports = <<>>
    /\ stdout = <<>>
    /\ status = "run"
    /\ applied = <<>>
    /\ lines = <<>>
    /\ rs = NewRecords
    /\ inodes = <<>>
    /\ idx = 0
    /\ events = <<>>
    /\ input = <<>>
    /\ output = <<>>

\* tm.Apply(i) for some Inode i
ApplyOne ==
    /\ status = "run"
    /\ Len(applied) < MaxApply
    /\ \E i \in TimelineInodes : Apply(i)
    /\ UNCHANGED <<flagJson, lines, rs, inodes, idx, events, input, output>>

Next == ApplyOne

Spec == Init /\ [][Next]_vars

\* the Violations reported so far, in order, as (Create, Use) pairs
Violations ==
    IF flagJson THEN reports
    ELSE [k \in 1..Len(stdout) |-> [Create |-> stdout[k].Create, Use |-> stdout[k].Use]]


(***************************************************************************)
(* Specification SpecLog: ParseLog over a log file of at most MaxLines     *)
(* lines, read line by line; the file may end after any line.              *)
(***************************************************************************)
Quote(chars) == <<"\"">> \o chars \o <<"\"">>

\* const AuditdSep: the line "----"
AuditdSep == [kind |-> "sep"]

\* type=SYSCALL msg=...: ... success=yes|no ...
SyscallLine(success) ==
    [kind |-> "record", Type |-> "SYSCALL", Msg |-> "audit(1.0:1)",
     Body |-> [success |-> success]]

\* type=PATH msg=...: ... name="..." inode=100 dev=08:01 mode=0100644 nametype=...
PathLine(nametype, name) ==
    [kind |-> "record", Type |-> "PATH", Msg |-> "audit(1.0:1)",
     Body |-> [name |-> Quote(name), inode |-> "100", dev |-> "08:01",
               mode |-> <<"0", "1", "0", "0", "6", "4", "4">>,
               nametype |-> nametype]]

TmpName == <<"/", "t", "m", "p", "/", "n", "a", "m", "e">>    \* /tmp/name
TmpNAME == <<"/", "t", "m", "p", "/", "N", "A", "M", "E">>    \* /tmp/NAME

\* the lines a log file of SpecLog is made of, the separator apart
LogLines ==
    {SyscallLine("yes"),
     PathLine("CREATE", TmpName),
     PathLine("NORMAL", TmpNAME),
     PathLine("DELETE", TmpName)}

\* ApplyInodes running from the first element to the last
ApplyInodesIndexForward(n, k) == k

\* the k-th call of Apply in ApplyInodes over n Inodes takes this element
\* (1-based): the loop runs from the last element down to the first
ApplyInodesIndex(n, k) == n - k + 1

\* ParseLog, loop body, line # AuditdSep: rs.AddLine(line)
ReadLine ==
    /\ status = "run"
    /\ inodes = <<>>
    /\ Len(lines) < MaxLines
    /\ \E line \in LogLines :
          /\ lines' = Append(lines, line)
          /\ rs' = AddLine(rs, line)
    /\ UNCHANGED <<flagJson, history, reports, stdout, status, applied,
                   inodes, idx, events, input, output>>

\* CloseEvent with a Timeline made anew for every Event
CloseEventNewTimeline ==
    /\ status = "run"
    /\ inodes = <<>>
    /\ Len(lines) < MaxLines
    /\ lines' = Append(lines, AuditdSep)
    /\ history' = NewTimeline
    /\ IF GetInodesFatal(rs)
       THEN /\ status' = "fatal"
            /\ UNCHANGED <<rs, inodes, events>>
       ELSE /\ events' = Append(events, GetInodes(rs))
            /\ inodes' = GetInodes(rs)
            /\ rs' = IF GetInodes(rs) = <<>> THEN NewRecords ELSE rs
            /\ UNCHANGED status
    /\ UNCHANGED <<flagJson, reports, stdout, applied, idx, input, output>>

\* ParseLog, loop body, line = AuditdSep: rs.GetInodes(), and ApplyInodes
\* starts; with no Inode to apply the iteration is over: rs = &Records{}
CloseEvent ==
    /\ status = "run"
    /\ inodes = <<>>
    /\ Len(lines) < MaxLines
    /\ lines' = Append(lines, AuditdSep)
    /\ IF GetInodesFatal(rs)
       THEN /\ status' = "fatal"
            /\ UNCHANGED <<rs, inodes, events>>
       ELSE /\ events' = Append(events, GetInodes(rs))
            /\ inodes' = GetInodes(rs)
            /\ rs' = IF GetInodes(rs) = <<>> THEN NewRecords ELSE rs
            /\ UNCHANGED status
    /\ UNCHANGED <<flagJson, history, reports, stdout, applied, idx, input,
                   output>>

\* an ApplyNext after which ParseLog goes on with the Records it has
ApplyNextKeepsRecords ==
    /\ status = "run"
    /\ inodes # <<>>
    /\ Apply(inodes[Len(inodes) - idx])
    /\ IF status' = "run" /\ idx + 1 = Len(inodes)
       THEN /\ idx' = 0
            /\ inodes' = <<>>
            /\ UNCHANGED rs
       ELSE /\ idx' = idx + 1
            /\ UNCHANGED <<inodes, rs>>
    /\ UNCHANGED <<flagJson, lines, events, input, output>>

\* Timeline.ApplyInodes, one iteration: tm.Apply of the next Inode; after the
\* last one ParseLog goes on with rs = &Records{}
ApplyNext ==
    /\ status = "run"
    /\ inodes # <<>>
    /\ Apply(inodes[ApplyInodesIndex(Len(inodes), idx + 1)])
    /\ IF status' = "run" /\ idx + 1 = Len(inodes)
       THEN /\ idx' = 0
            /\ inodes' = <<>>
            /\ rs' = NewRecords
       ELSE /\ idx' = idx + 1
            /\ UNCHANGED <<inodes, rs>>
    /\ UNCHANGED <<flagJson, lines, events, input, output>>

\* ParseLog returns at the end of the file: the deferred tm.Close() runs
Finish ==
    /\ status = "run"
    /\ inodes = <<>>
    /\ status' = "done"
    /\ Close
    /\ UNCHANGED <<flagJson, history, reports, applied, lines, rs, inodes,
                   idx, events, input, output>>

NextLog == ReadLine \/ CloseEvent \/ ApplyNext \/ Finish

SpecLog == Init /\ [][NextLog]_vars

(***************************************************************************)
(* Properties of Timeline.Apply (specification Spec).                      *)
(***************************************************************************)
\* the step is a call of Timeline.Apply
IsApplyStep == Len(applied') = Len(applied) + 1

\* the Inode the step applies
AppliedInode == applied'[Len(applied')]

IsUse(i) == i.Operation \in {"NORMAL", "PARENT"}

IsMember(v, seq) == \E k \in 1..Len(seq) : seq[k] = v

\* C1: a successful NORMAL or PARENT whose path is not "(null)" and whose
\* normalized path differs from that of the CREATE recorded for its identity
\* reports the Violation (that CREATE, the use): any mismatch counts, also
\* when one path is a suffix of the other; CREATE "/d/n" then NORMAL "/d/N"
\* gives a Violation whose normalized paths are "/d/n" and "/d/N".
C1_MismatchReported ==
    [][IsApplyStep =>
        LET u == AppliedInode IN
        /\ (/\ IsUse(u)
            /\ u.Syscall.Success
            /\ u.Path # NullPath
            /\ Name(u) \in DOMAIN history
            /\ NormalizedPath(u) # NormalizedPath(history[Name(u)]))
           => Violations' = Append(Violations, [Create |-> history[Name(u)], Use |-> u])
        /\ (/\ applied = <<Ino("CREATE", "100", PathName, 0, TRUE, CwdD)>>
            /\ u = Ino("NORMAL", "100", PathNAME, 0, TRUE, CwdD))
           => /\ Len(Violations') = 1
              /\ NormalizedPath(Violations'[1].Create) = <<"/", "d", "/", "n">>
              /\ NormalizedPath(Violations'[1].Use) = <<"/", "d", "/", "N">>
              /\ Violations'[1].Create = applied[1]
              /\ Violations'[1].Use = u
    ]_vars

\* C1 witness: CREATE /d/n, then NORMAL /d/N and NORMAL /n (a suffix of /d/n)
\* have both been reported
C1_Witness ==
    /\ Len(applied) = 3
    /\ applied[1] = Ino("CREATE", "100", PathName, 0, TRUE, CwdD)
    /\ applied[2] = Ino("NORMAL", "100", PathNAME, 0, TRUE, CwdD)
    /\ applied[3] = Ino("NORMAL", "100", PathSuffix, 0, TRUE, CwdD)
    /\ Violations = <<[Create |-> applied[1], Use |-> applied[2]],
                      [Create |-> applied[1], Use |-> applied[3]]>>

\* C4: no Violation has a failed syscall on its create side or on its use
\* side, and a failed CREATE is never recorded in history.
C4_FailedSyscallExempt ==
    /\ \A k \in 1..Len(Violations) :
          /\ Violations[k].Create.Syscall.Success
          /\ Violations[k].Use.Syscall.Success
    /\ \A n \in DOMAIN history : history[n].Syscall.Success

\* C4 witness: a failed CREATE, then a successful use of the same identity
\* under another path, and nothing reported
C4_Witness ==
    /\ Len(applied) >= 2
    /\ applied[1].Operation = "CREATE" /\ ~applied[1].Syscall.Success
    /\ IsUse(applied[2]) /\ applied[2].Syscall.Success
    /\ Name(applied[2]) = Name(applied[1])
    /\ applied[2].Path # applied[1].Path
    /\ applied[2].Path # NullPath
    /\ Violations = <<>>

\* a DELETE of identity n is in the log with no CREATE of n after it
DeletedSince(log, n) ==
    \E j \in 1..Len(log) :
       /\ log[j].Operation = "DELETE"
       /\ Name(log[j]) = n
       /\ \A k \in (j + 1)..Len(log) :
             ~(log[k].Operation = "CREATE" /\ Name(log[k]) = n)

\* the log is CREATE(id, X), DELETE(id), NORMAL(id, Y), all the same identity,
\* the CREATE and the NORMAL successful
IsCreateDeleteUse(log) ==
    /\ Len(log) = 3
    /\ log[1].Operation = "CREATE" /\ log[1].Syscall.Success
    /\ log[2].Operation = "DELETE" /\ Name(log[2]) = Name(log[1])
    /\ log[3].Operation = "NORMAL" /\ log[3].Syscall.Success
    /\ Name(log[3]) = Name(log[1])

\* C5: CREATE(id, X), DELETE(id), NORMAL(id, Y) reports no Violation; and
\* a use applied when a DELETE of its identity is in the log with no CREATE
\* of that identity after it reports nothing.
C5_DeleteClears ==
    /\ [](IsCreateDeleteUse(applied) => Violations = <<>>)
    /\ [][(IsApplyStep /\ IsUse(AppliedInode)
             /\ DeletedSince(applied, Name(AppliedInode)))
          => Violations' = Violations]_vars

\* C5 witness: CREATE /d/n, DELETE (failed syscall), NORMAL /d/N: no Violation
C5_Witness ==
    /\ IsCreateDeleteUse(applied)
    /\ applied[1].Path = PathName
    /\ ~applied[2].Syscall.Success
    /\ applied[3].Path = PathNAME
    /\ Violations = <<>>

\* C6: a use whose normalized path equals that of the CREATE recorded for
\* its identity reports nothing; no Violation pairs equal normalized paths,
\* nor a CREATE and a use of one raw path, working directory and mode.
C6_NoFalsePositive ==
    /\ [](\A k \in 1..Len(Violations) :
            LET v == Violations[k] IN
            /\ NormalizedPath(v.Create) # NormalizedPath(v.Use)
            /\ ~(/\ v.Create.Path = v.Use.Path
                 /\ v.Create.Cwd = v.Use.Cwd
                 /\ v.Create.Mode = v.Use.Mode))
    /\ [][(IsApplyStep /\ Name(AppliedInode) \in DOMAIN history
             /\ NormalizedPath(AppliedInode)
                  = NormalizedPath(history[Name(AppliedInode)]))
          => Violations' = Violations]_vars

\* C6 witness: CREATE /d/n, then NORMAL /d/n, NORMAL n (joined onto /d):
\* equal normalized paths, nothing reported
C6_Witness ==
    /\ Len(applied) = 3
    /\ applied[1] = Ino("CREATE", "100", PathName, 0, TRUE, CwdD)
    /\ applied[2] = Ino("NORMAL", "100", PathName, 0, TRUE, CwdD)
    /\ applied[3] = Ino("NORMAL", "100", PathRel, 0, TRUE, CwdD)
    /\ history["08:01|100"] = applied[1]
    /\ Violations = <<>>

\* C7: no Violation has the path "(null)" on its create or its use side,
\* and history never holds a CREATE whose path is "(null)".
C7_NullPathExempt ==
    /\ \A k \in 1..Len(Violations) :
          /\ Violations[k].Create.Path # NullPath
          /\ Violations[k].Use.Path # NullPath
    /\ \A n \in DOMAIN history : history[n].Path # NullPath

\* C7 witness: a successful CREATE "(null)" and a successful NORMAL "(null)"
\* of one identity were applied after a CREATE of that identity was recorded
C7_Witness ==
    /\ Len(applied) = 3
    /\ applied[1] = Ino("CREATE", "100", PathName, 0, TRUE, CwdD)
    /\ applied[2] = Ino("CREATE", "100", NullPath, 0, TRUE, CwdD)
    /\ applied[3] = Ino("NORMAL", "100", NullPath, 0, TRUE, CwdD)
    /\ history["08:01|100"] = applied[1]
    /\ Violations = <<>>

\* a CREATE that Timeline.Apply records: successful, path not "(null)"
IsRecordedCreate(i) ==
    i.Operation = "CREATE" /\ i.Syscall.Success /\ i.Path # NullPath

\* index in the log of the latest recorded CREATE of identity n; 0 if none
LatestCreate(log, n) ==
    LET S == {j \in 1..Len(log) : IsRecordedCreate(log[j]) /\ Name(log[j]) = n}
    IN  IF S = {} THEN 0 ELSE CHOOSE j \in S : \A k \in S : k <= j

\* C8: history[id] is defined exactly when a recorded CREATE of id is in the
\* log with no DELETE of id after the latest one, and then it is that
\* latest CREATE (last writer wins).
C8_HistoryIsLatestCreate ==
    \A n \in DOMAIN history \cup {Name(applied[j]) : j \in 1..Len(applied)} :
        LET c == LatestCreate(applied, n)
            live == /\ c > 0
                    /\ ~\E k \in (c + 1)..Len(applied) :
                          applied[k].Operation = "DELETE" /\ Name(applied[k]) = n
        IN  /\ (n \in DOMAIN history) <=> live
            /\ live => history[n] = applied[c]

\* C8 witness: a second CREATE of the identity, under another path, has
\* overwritten the first
C8_Witness ==
    /\ Len(applied) >= 2
    /\ IsRecordedCreate(applied[1]) /\ IsRecordedCreate(applied[2])
    /\ Name(applied[1]) = Name(applied[2])
    /\ applied[1].Path # applied[2].Path
    /\ Name(applied[2]) \in DOMAIN history
    /\ history[Name(applied[2])] = applied[Len(applied)]
    /\ Len(applied) = 2

(***************************************************************************)
(* Properties of the pipeline (specification SpecLog).                     *)
(***************************************************************************)
\* the lines of the file cut at the separators: the Events in file order;
\* the last element is what follows the last separator (no separator ends it)
RECURSIVE Segments(_, _)
Segments(ls, cur) ==
    IF Len(ls) = 0 THEN <<cur>>
    ELSE IF Head(ls) = AuditdSep THEN <<cur>> \o Segments(Tail(ls), <<>>)
    ELSE Segments(Tail(ls), Append(cur, Head(ls)))

\* the Events of the file that a separator line ends
ClosedEvents(ls) == LET sg == Segments(ls, <<>>) IN SubSeq(sg, 1, Len(sg) - 1)

\* what follows the last separator of the file
OpenEvent(ls) == LET sg == Segments(ls, <<>>) IN sg[Len(sg)]

\* the PATH lines among the lines of an Event, in file order
RECURSIVE PathLinesOf(_)
PathLinesOf(ev) ==
    IF Len(ev) = 0 THEN <<>>
    ELSE IF Head(ev).kind = "record" /\ Head(ev).Type = "PATH"
         THEN <<Head(ev)>> \o PathLinesOf(Tail(ev))
         ELSE PathLinesOf(Tail(ev))

RECURSIVE CountPaths(_)
CountPaths(evs) ==
    IF Len(evs) = 0 THEN 0 ELSE Len(PathLinesOf(Head(evs))) + CountPaths(Tail(evs))

\* the Inode is the PathAction of this PATH line
IsActionOf(i, line) ==
    /\ i.Operation = line.Body.nametype
    /\ Quote(i.Path) = line.Body.name
    /\ Name(i) = line.Body.dev \o "|" \o line.Body.inode

Reverse(seq) == [k \in 1..Len(seq) |-> seq[Len(seq) - k + 1]]

\* ParseLog is between two lines, or has returned
Quiescent == status \in {"run", "done"} /\ inodes = <<>>

\* C3: when the replay of an Event with PATH lines [p0, ..., pn] is over,
\* the last n+1 calls of Apply were for pn, ..., p1, p0 in this order, and
\* there have been as many calls of Apply as PATH lines in the Events
\* replayed so far (each PathAction exactly once).
C3_ReverseWithinEvent ==
    (Quiescent /\ ClosedEvents(lines) # <<>>) =>
        LET evs == ClosedEvents(lines)
            p == PathLinesOf(evs[Len(evs)])
            n == Len(p)
            base == Len(applied) - n
        IN  /\ Len(applied) = CountPaths(evs)
            /\ \A k \in 1..n : IsActionOf(applied[base + k], p[n - k + 1])

\* C3 witness: an Event listing DELETE, NORMAL, CREATE has been replayed as
\* CREATE, NORMAL, DELETE
C3_Witness ==
    /\ Quiescent
    /\ lines = <<SyscallLine("yes"), PathLine("DELETE", TmpName),
                 PathLine("NORMAL", TmpNAME), PathLine("CREATE", TmpName),
                 AuditdSep>>
    /\ Len(applied) = 3
    /\ applied[1].Operation = "CREATE"
    /\ applied[2].Operation = "NORMAL"
    /\ applied[3].Operation = "DELETE"

\* the Events whose lines are not all empty
RECURSIVE NonEmpty(_)
NonEmpty(evs) ==
    IF Len(evs) = 0 THEN <<>>
    ELSE IF Head(evs) = <<>> THEN NonEmpty(Tail(evs))
    ELSE <<Head(evs)>> \o NonEmpty(Tail(evs))

\* the Event is a successful SYSCALL record and this PATH record
IsEventOf(ev, pathLine) ==
    /\ Len(ev) = 2
    /\ {ev[1], ev[2]} = {SyscallLine("yes"), pathLine}

\* the file holds exactly two Events: Event 1 a successful CREATE of
\* 08:01|100 at /tmp/name, Event 2 a successful NORMAL of it at /tmp/NAME
IsTwoEventLog(ls) ==
    LET evs == NonEmpty(Segments(ls, <<>>))
    IN  /\ Len(evs) = 2
        /\ IsEventOf(evs[1], PathLine("CREATE", TmpName))
        /\ IsEventOf(evs[2], PathLine("NORMAL", TmpNAME))

\* the one Violation of the two-Event scenario
IsTwoEventViolation(vs) ==
    /\ Len(vs) = 1
    /\ IsActionOf(vs[1].Create, PathLine("CREATE", TmpName))
    /\ IsActionOf(vs[1].Use, PathLine("NORMAL", TmpNAME))
    /\ Name(vs[1].Create) = "08:01|100"
    /\ vs[1].Create.Syscall.Success /\ vs[1].Use.Syscall.Success

\* C2: a run over a file of exactly these two Events ends with exactly one
\* Violation, pairing the CREATE of Event 1 with the NORMAL of Event 2.
C2_TwoEventsOneViolation ==
    (status = "done" /\ IsTwoEventLog(lines)) => IsTwoEventViolation(Violations)

\* the two-Event scenario when a separator line ends both Events: exactly
\* that one Violation
TwoEventsClosedOneViolation ==
    (status = "done" /\ IsTwoEventLog(lines) /\ OpenEvent(lines) = <<>>)
        => IsTwoEventViolation(Violations)

\* the two-Event scenario when no separator follows Event 2: no Violation
TwoEventsOpenNoViolation ==
    (status = "done" /\ IsTwoEventLog(lines) /\ OpenEvent(lines) # <<>>)
        => Violations = <<>>

\* the Inodes of the Events GetInodes was called for are those of the
\* Events of the file, in file order
EventsInFileOrder ==
    LET evs == ClosedEvents(lines)
    IN  /\ Len(events) <= Len(evs)
        /\ Len(events) >= Len(evs) - 1
        /\ (status # "fatal") => Len(events) = Len(evs)
        /\ \A e \in 1..Len(events) :
              LET p == PathLinesOf(evs[e])
              IN  /\ Len(events[e]) = Len(p)
                  /\ \A k \in 1..Len(p) : IsActionOf(events[e][k], p[k])

\* the reversed Inodes lists of the Events, one after the other
RECURSIVE Flatten(_)
Flatten(evs) ==
    IF Len(evs) = 0 THEN <<>> ELSE Reverse(Head(evs)) \o Flatten(Tail(evs))

\* C9: the calls of Apply are, in order, the reversed list of Event 1, then
\* the reversed list of Event 2, and so on in file order (a prefix of it
\* while an Event is being replayed, all of it between two lines); so a
\* DELETE or a CREATE of Event N is seen by the use of Event N+1.
C9_EventsInFileOrder ==
    /\ EventsInFileOrder
    /\ LET flat == Flatten(events)
       IN  /\ Len(applied) <= Len(flat)
           /\ applied = SubSeq(flat, 1, Len(applied))
           /\ Quiescent => applied = flat
           /\ (status = "run" /\ inodes # <<>>) =>
                 Len(flat) - Len(applied) = Len(inodes) - idx
    /\ (Quiescent /\ lines = <<SyscallLine("yes"), PathLine("DELETE", TmpName),
                               PathLine("CREATE", TmpName), AuditdSep,
                               SyscallLine("yes"), PathLine("NORMAL", TmpNAME),
                               AuditdSep>>)
          => (Violations = <<>> /\ DOMAIN history = {})
    /\ (Quiescent /\ lines = <<SyscallLine("yes"), PathLine("CREATE", TmpName),
                               AuditdSep,
                               SyscallLine("yes"), PathLine("NORMAL", TmpNAME),
                               AuditdSep>>)
          => IsTwoEventViolation(Violations)

\* C9 witness: Event 1 lists DELETE, CREATE (replayed CREATE, DELETE), and
\* the NORMAL of Event 2 found no CREATE
C9_Witness ==
    /\ status = "done"
    /\ lines = <<SyscallLine("yes"), PathLine("DELETE", TmpName),
                 PathLine("CREATE", TmpName), AuditdSep,
                 SyscallLine("yes"), PathLine("NORMAL", TmpNAME), AuditdSep>>
    /\ Len(events) = 2
    /\ Len(applied) = 3
    /\ applied[3].Operation = "NORMAL"
    /\ Violations = <<>>

\* C10: when the run ends normally every Event built from the file has
\* been replayed: no Record is left in the assembler and every PATH line of
\* the file has had its call of Apply.
C10_EveryEventReplayed ==
    status = "done" =>
        /\ rs.Records = <<>>
        /\ Len(applied) = CountPaths(Segments(lines, <<>>))

\* when the run ends normally, exactly the Events that a separator line
\* ends have been replayed
ClosedEventsReplayed ==
    status = "done" => Len(applied) = CountPaths(ClosedEvents(lines))

ApplyToParentIgnored(tm, i) ==
    IF tm.fatal THEN tm
    ELSE CASE i.Operation = "CREATE" ->
                [tm EXCEPT !.history = recordCreate(tm.history, i)]
           [] i.Operation = "NORMAL" ->
                [tm EXCEPT !.reports = @ \o verifyUse(tm.history, i)]
           [] i.Operation = "DELETE" ->
                [tm EXCEPT !.history = deleteName(tm.history, i)]
           [] i.Operation \in {"UNKNOWN", "PARENT"} -> tm
           [] OTHER -> [tm EXCEPT !.fatal = TRUE]

ApplyTo(tm, i) ==
    IF tm.fatal THEN tm
    ELSE CASE i.Operation = "CREATE" ->
                [tm EXCEPT !.history = recordCreate(tm.history, i)]
           [] i.Operation \in {"PARENT", "NORMAL"} ->
                [tm EXCEPT !.reports = @ \o verifyUse(tm.history, i)]
           [] i.Operation = "DELETE" ->
                [tm EXCEPT !.history = deleteName(tm.history, i)]
           [] i.Operation = "UNKNOWN" -> tm
           [] OTHER -> [tm EXCEPT !.fatal = TRUE]

\* the Timeline after the Inodes of seq, applied first to last
RECURSIVE Replay(_, _)
Replay(tm, seq) ==
    IF Len(seq) = 0 THEN tm ELSE Replay(ApplyTo(tm, Head(seq)), Tail(seq))

\* the Reports of a replay of seq against a new Timeline
Verdict(seq) ==
    Replay([history |-> NewTimeline, reports |-> <<>>, fatal |-> FALSE], seq).reports

\* the Inodes lists of the Events one after the other, each first to last:
\* the order of a replay that runs over each list from its first element
RECURSIVE FlattenForward(_)
FlattenForward(evs) ==
    IF Len(evs) = 0 THEN <<>> ELSE Head(evs) \o FlattenForward(Tail(evs))

\* the run so far is the replay of the applied Inodes
ReplayMatchesRun ==
    LET tm == Replay([history |-> NewTimeline, reports |-> <<>>, fatal |-> FALSE],
                     applied)
    IN  /\ tm.history = history
        /\ tm.reports = Violations
        /\ tm.fatal => status = "fatal"

\* Event 1 lists p0 = DELETE(id), ..., pn = a recorded CREATE(id, X), with no
\* use in between; Event 2 is one successful NORMAL(id, Y), Y other than X
IsDeleteCreateFixture(evs) ==
    /\ Len(evs) = 2
    /\ Len(evs[1]) >= 2
    /\ evs[1][1].Operation = "DELETE"
    /\ IsRecordedCreate(evs[1][Len(evs[1])])
    /\ Name(evs[1][1]) = Name(evs[1][Len(evs[1])])
    /\ \A k \in 1..Len(evs[1]) : ~IsUse(evs[1][k])
    /\ Len(evs[2]) = 1
    /\ evs[2][1].Operation = "NORMAL"
    /\ evs[2][1].Syscall.Success
    /\ evs[2][1].Path # NullPath
    /\ Name(evs[2][1]) = Name(evs[1][1])
    /\ NormalizedPath(evs[2][1]) # NormalizedPath(evs[1][Len(evs[1])])

\* C14: on such a fixture the run (reverse order: CREATE, then DELETE)
\* reports no Violation, and a replay of the same Events in forward order
\* (DELETE, then CREATE) reports one, pairing pn with the NORMAL.
C14_ForwardOrderDiffers ==
    (Quiescent /\ IsDeleteCreateFixture(NonEmpty(events))) =>
        LET evs == NonEmpty(events) IN
        /\ Violations = <<>>
        /\ Verdict(Flatten(events)) = <<>>
        /\ Verdict(FlattenForward(events))
             = <<[Create |-> evs[1][Len(evs[1])], Use |-> evs[2][1]]>>

\* C14 witness: the run over Event 1 = DELETE, CREATE /tmp/name and
\* Event 2 = NORMAL /tmp/NAME has ended
C14_Witness ==
    /\ status = "done"
    /\ IsDeleteCreateFixture(NonEmpty(events))
    /\ Len(applied) = 3
    /\ applied[1].Operation = "CREATE"
    /\ applied[2].Operation = "DELETE"
    /\ Violations = <<>>

(***************************************************************************)
(* More properties of Timeline.Apply (specification Spec).                 *)
(***************************************************************************)
\* C15: a DELETE removes its identity from history, whatever its syscall's
\* success and its path; the other identities keep their entries, nothing
\* is reported and the run goes on (also when the identity was not in
\* history).
C15_DeleteUnconditional ==
    [][(IsApplyStep /\ AppliedInode.Operation = "DELETE") =>
        LET d == AppliedInode IN
        /\ DOMAIN history' = DOMAIN history \ {Name(d)}
        /\ \A n \in DOMAIN history' : history'[n] = history[n]
        /\ Violations' = Violations
        /\ status' = "run"
    ]_vars

\* C15 witness: with CREATEs of two identities recorded, a DELETE with a
\* failed syscall and the path "(null)" has removed its identity only
C15_Witness ==
    /\ Len(applied) = 3
    /\ IsRecordedCreate(applied[1]) /\ Name(applied[1]) = "08:01|200"
    /\ IsRecordedCreate(applied[2]) /\ Name(applied[2]) = "08:01|100"
    /\ applied[3] = Ino("DELETE", "100", NullPath, 0, FALSE, CwdD)
    /\ DOMAIN history = {"08:01|200"}
    /\ history["08:01|200"] = applied[1]
    /\ status = "run"

(***************************************************************************)
(* Specification SpecNorm: Inode.NormalizedPath on an Inode of any path of *)
(* at most MaxPathLen characters, and on its own result.                   *)
(***************************************************************************)
\* the sequences over S of length n
RECURSIVE SeqsOfLen(_, _)
SeqsOfLen(S, n) ==
    IF n = 0 THEN {<<>>}
    ELSE {Append(s, c) : s \in SeqsOfLen(S, n - 1), c \in S}

\* the sequences over S of length at most n
SeqsUpTo(S, n) == UNION {SeqsOfLen(S, k) : k \in 0..n}

\* the Mode of a PATH record with mode=0100644
FileMode == Uint16(Atoi(<<"0", "1", "0", "0", "6", "4", "4">>))

\* the Inodes whose path is normalized: every path over "/", "a", ".", or
\* "(null)"; no mode field, a directory's or a regular file's; no working
\* directory, an absolute or a relative one
NormInodes ==
    {Ino("NORMAL", "100", p, m, TRUE, c) :
        p \in SeqsUpTo({"/", "a", "."}, MaxPathLen) \cup {NullPath},
        m \in {0, DirMode, FileMode},
        c \in {<<>>, CwdD, <<"d">>}}

\* the state before any call
Idle ==
    /\ flagJson = FALSE
    /\ history = NewTimeline
    /\ reports = <<>>
    /\ stdout = <<>>
    /\ status = "run"
    /\ applied = <<>>
    /\ lines = <<>>
    /\ rs = NewRecords
    /\ inodes = <<>>
    /\ idx = 0
    /\ events = <<>>
    /\ output = <<>>

InitNorm == Idle /\ input \in NormInodes

\* i.NormalizedPath()
Normalize ==
    /\ output = <<>>
    /\ output' = <<NormalizedPath(input)>>
    /\ UNCHANGED <<flagJson, history, reports, stdout, status, applied, lines,
                   rs, inodes, idx, events, input>>

\* NormalizedPath of the same Inode with the normalized path as its path
NormalizeAgain ==
    /\ Len(output) = 1
    /\ output' = Append(output, NormalizedPath([input EXCEPT !.Path = output[1]]))
    /\ UNCHANGED <<flagJson, history, reports, stdout, status, applied, lines,
                   rs, inodes, idx, events, input>>

NextNorm == Normalize \/ NormalizeAgain

SpecNorm == InitNorm /\ [][NextNorm]_vars

\* C16: normalizing the normalized path again, under the same working
\* directory and mode, returns it unchanged.
C16_NormalizeIdempotent ==
    Len(output) = 2 => output[2] = output[1]

\* normalization is idempotent on an absolute path that does not end in
\* two separators
NormalizeIdempotentOneSlash ==
    (/\ Len(output) = 2
     /\ Len(input.Path) > 0 /\ input.Path[1] = "/"
     /\ ~HasSuffix(input.Path, <<"/", "/">>))
        => output[2] = output[1]

(***************************************************************************)
(* ParseKVPairs and NewRecord on the text of a line.  A text is a sequence *)
(* of atoms: the delimiters " ", "=" and ":", and words (maximal runs of   *)
(* other characters).  Keys and values are texts.                          *)
(***************************************************************************)
\* strings.Split(s, sep) for a one-atom separator; cur is the piece being read
RECURSIVE Split(_, _, _)
Split(s, sep, cur) ==
    IF s = <<>> THEN <<cur>>
    ELSE IF Head(s) = sep THEN <<cur>> \o Split(Tail(s), sep, <<>>)
    ELSE Split(Tail(s), sep, Append(cur, Head(s)))

\* a split at the first ": " only: what precedes it, and all that follows
SplitAtFirstColonSpace(s, cur) ==
    LET P == {i \in 1..(Len(s) - 1) : s[i] = ":" /\ s[i + 1] = " "} IN
    IF P = {} THEN <<s>>
    ELSE LET i == CHOOSE i \in P : \A j \in P : i <= j
         IN  <<SubSeq(s, 1, i - 1), SubSeq(s, i + 2, Len(s))>>

\* strings.Split(s, ": ")
RECURSIVE SplitColonSpace(_, _)
SplitColonSpace(s, cur) ==
    IF s = <<>> THEN <<cur>>
    ELSE IF Len(s) >= 2 /\ s[1] = ":" /\ s[2] = " "
         THEN <<cur>> \o SplitColonSpace(SubSeq(s, 3, Len(s)), <<>>)
    ELSE SplitColonSpace(Tail(s), Append(cur, Head(s)))

\* result[k] = v
MapPut(m, k, v) == [x \in DOMAIN m \cup {k} |-> IF x = k THEN v ELSE m[x]]

\* m[k] of a Go map: the zero value for a missing key
MapGet(m, k) == IF k \in DOMAIN m THEN m[k] ELSE <<>>

\* make(map[string]string), and no error reported yet
EmptyResult == [ok |-> TRUE, m |-> [k \in {} |-> <<>>]]

\* a variant that stores a token without "=" as a key of its own
parseEntryBareKey(res, entry) ==
    LET vals == Split(entry, "=", <<>>) IN
    IF ~res.ok THEN res
    ELSE IF Len(vals) = 2 THEN [res EXCEPT !.m = MapPut(@, vals[1], vals[2])]
    ELSE IF Len(vals) = 1 THEN
        IF vals[1] = <<>> THEN res
        ELSE [res EXCEPT !.m = MapPut(@, vals[1], <<>>)]
    ELSE [res EXCEPT !.ok = FALSE]

\* a variant that takes a token with several "=" as key and first value
parseEntryFirstEq(res, entry) ==
    LET vals == Split(entry, "=", <<>>) IN
    IF ~res.ok THEN res
    ELSE IF Len(vals) >= 2 THEN [res EXCEPT !.m = MapPut(@, vals[1], vals[2])]
    ELSE IF <<"msg">> \in DOMAIN res.m
    THEN [res EXCEPT !.m = MapPut(@, <<"msg">>,
                                  res.m[<<"msg">>] \o <<" ">> \o vals[1])]
    ELSE IF <<"proctitle">> \in DOMAIN res.m
    THEN [res EXCEPT !.m = MapPut(@, <<"proctitle">>,
                                  res.m[<<"proctitle">>] \o <<" ">> \o vals[1])]
    ELSE IF vals[1] = <<>> THEN res
    ELSE [res EXCEPT !.ok = FALSE]

\* a variant that tries proctitle before msg
parseEntryProctitleFirst(res, entry) ==
    LET vals == Split(entry, "=", <<>>) IN
    IF ~res.ok THEN res
    ELSE IF Len(vals) = 2 THEN [res EXCEPT !.m = MapPut(@, vals[1], vals[2])]
    ELSE IF Len(vals) = 1 THEN
        IF <<"proctitle">> \in DOMAIN res.m
        THEN [res EXCEPT !.m = MapPut(@, <<"proctitle">>,
                                      res.m[<<"proctitle">>] \o <<" ">> \o vals[1])]
        ELSE IF <<"msg">> \in DOMAIN res.m
        THEN [res EXCEPT !.m = MapPut(@, <<"msg">>,
                                      res.m[<<"msg">>] \o <<" ">> \o vals[1])]
        ELSE IF vals[1] = <<>> THEN res
        ELSE [res EXCEPT !.ok = FALSE]
    ELSE [res EXCEPT !.ok = FALSE]

\* one iteration of the parsing loop of ParseKVPairs; ok = FALSE is reportErr
parseEntry(res, entry) ==
    LET vals == Split(entry, "=", <<>>) IN
    IF ~res.ok THEN res
    ELSE IF Len(vals) = 2 THEN [res EXCEPT !.m = MapPut(@, vals[1], vals[2])]
    ELSE IF Len(vals) = 1 THEN
        IF <<"msg">> \in DOMAIN res.m
        THEN [res EXCEPT !.m = MapPut(@, <<"msg">>,
                                      res.m[<<"msg">>] \o <<" ">> \o vals[1])]
        ELSE IF <<"proctitle">> \in DOMAIN res.m
        THEN [res EXCEPT !.m = MapPut(@, <<"proctitle">>,
                                      res.m[<<"proctitle">>] \o <<" ">> \o vals[1])]
        ELSE IF vals[1] = <<>> THEN res
        ELSE [res EXCEPT !.ok = FALSE]
    ELSE [res EXCEPT !.ok = FALSE]

\* the parsing loop over the entries
RECURSIVE parseEntries(_, _)
parseEntries(res, entries) ==
    IF entries = <<>> THEN res
    ELSE parseEntries(parseEntry(res, Head(entries)), Tail(entries))

ParseKVPairs(str) == parseEntries(EmptyResult, Split(str, " ", <<>>))

\* NewRecord(rawstr) exits through log.Fatal
NewRecordFatal(rawstr) ==
    LET parts == SplitColonSpace(rawstr, <<>>) IN
    \/ Len(parts) # 2
    \/ ~ParseKVPairs(parts[1]).ok
    \/ ~ParseKVPairs(parts[2]).ok

NewRecord(rawstr) ==
    LET parts == SplitColonSpace(rawstr, <<>>)
        headers == ParseKVPairs(parts[1]).m
        body == ParseKVPairs(parts[2]).m
    IN  [Type |-> MapGet(headers, <<"type">>),
         Msg  |-> MapGet(headers, <<"msg">>),
         Timestamp |-> <<>>,
         Body |-> body]

(***************************************************************************)
(* Specification SpecParse: NewRecord on a line of at most MaxHeaderTokens *)
(* header tokens and at most MaxBodyTokens body tokens.                    *)
(***************************************************************************)
\* the text key=value
KV(k, v) == <<k, "=", v>>

HeaderTokens ==
    {KV("type", "CWD"), <<"msg", "=", "audit(1", ":", "2)">>, KV("node", "h"),
     <<"x">>}

BodyTokens ==
    {KV("a", "b"), KV("msg", "m"), KV("proctitle", "p"), <<"x">>, <<>>,
     <<"a", "=", "b", "=", "c">>, <<"msg", "=", "m", ":">>}

\* the tokens separated by one space each
RECURSIVE JoinSpace(_)
JoinSpace(tokens) ==
    IF tokens = <<>> THEN <<>>
    ELSE IF Len(tokens) = 1 THEN tokens[1]
    ELSE tokens[1] \o <<" ">> \o JoinSpace(Tail(tokens))

\* header and body separated by ": ", or (a line with no body) by a space
HeaderBodySeps == {<<":", " ">>, <<" ">>}

InitParse ==
    /\ Idle
    /\ \E nh \in 0..MaxHeaderTokens, nb \in 0..MaxBodyTokens :
         \E h \in [1..nh -> HeaderTokens], b \in [1..nb -> BodyTokens],
            sep \in HeaderBodySeps :
                input = JoinSpace(h) \o sep \o JoinSpace(b)

\* r := NewRecord(line)
ParseLine ==
    /\ status = "run" /\ output = <<>>
    /\ IF NewRecordFatal(input)
       THEN status' = "fatal" /\ UNCHANGED output
       ELSE output' = <<NewRecord(input)>> /\ UNCHANGED status
    /\ UNCHANGED <<flagJson, history, reports, stdout, applied, lines, rs,
                   inodes, idx, events, input>>

\* the Record is handed on
ParseDone ==
    /\ status = "run" /\ output # <<>>
    /\ status' = "done"
    /\ UNCHANGED <<flagJson, history, reports, stdout, applied, lines, rs,
                   inodes, idx, events, input, output>>

NextParse == ParseLine \/ ParseDone

SpecParse == InitParse /\ [][NextParse]_vars

\* the position of the first ": " of a line that has one
HeaderEnd(line) ==
    CHOOSE i \in 1..(Len(line) - 1) :
        /\ line[i] = ":" /\ line[i + 1] = " "
        /\ \A j \in 1..(i - 1) : ~(line[j] = ":" /\ line[j + 1] = " ")

HeaderOf(line) == SubSeq(line, 1, HeaderEnd(line) - 1)
BodyOf(line) == SubSeq(line, HeaderEnd(line) + 2, Len(line))

\* the positions at which a token of the text starts
TokenStarts(text) ==
    {i \in 1..Len(text) : text[i] # " " /\ (i = 1 \/ text[i - 1] = " ")}

\* the keys written in a text: what stands between the start of a token and
\* its "="
KeysWritten(text) ==
    {SubSeq(text, i, j - 1) :
        <<i, j>> \in {p \in TokenStarts(text) \X (1..Len(text)) :
                        /\ p[1] <= p[2] /\ text[p[2]] = "="
                        /\ \A k \in p[1]..(p[2] - 1) : text[k] \notin {" ", "="}}}

\* the keys recoverable from a Record
RecordHeaderKeys(r) ==
    (IF r.Type # <<>> THEN {<<"type">>} ELSE {})
        \cup (IF r.Msg # <<>> THEN {<<"msg">>} ELSE {})

RecordKeys(r) == RecordHeaderKeys(r) \cup DOMAIN r.Body

\* a line whose header has a type and a msg token
HasTypeAndMsg(line) ==
    {<<"type">>, <<"msg">>} \subseteq KeysWritten(HeaderOf(line))

\* C17 as stated: the keys recoverable from a Record built from a line with
\* a type and a msg in its header are exactly the keys written in the header
\* and the body of the line.
C17_NoKeyLost ==
    (output # <<>> /\ HasTypeAndMsg(input)) =>
        RecordKeys(output[1])
            = KeysWritten(HeaderOf(input)) \cup KeysWritten(BodyOf(input))

\* C17: the keys of a Record's body are exactly the keys written in the
\* body of its line, and of the keys written in the header the Record keeps
\* type and msg, and only these.
C17_BodyKeysAndTypeMsgKept ==
    output # <<>> =>
        /\ DOMAIN output[1].Body = KeysWritten(BodyOf(input))
        /\ RecordHeaderKeys(output[1])
             = KeysWritten(HeaderOf(input)) \cap {<<"type">>, <<"msg">>}

\* a Record built from a line with a node key in the header and, in the body,
\* a msg key followed by a word
C17_Witness ==
    /\ output # <<>>
    /\ <<"node">> \in KeysWritten(HeaderOf(input))
    /\ HasTypeAndMsg(input)
    /\ MapGet(output[1].Body, <<"msg">>) = <<"m", " ", "x">>

(***************************************************************************)
(* Specification SpecFile: ParseLog over a given log file of at most       *)
(* MaxFileLen lines (input), read from its first line to its last.  Lines  *)
(* of other kinds and lines NewRecord rejects are given as text (kind      *)
(* "raw"); ParseLog parses them when it reads them.                        *)
(***************************************************************************)
\* the atoms of a text as one string
RECURSIVE TextString(_)
TextString(t) == IF t = <<>> THEN "" ELSE Head(t) \o TextString(Tail(t))

\* what NewRecord makes of a text it accepts
RecordLine(text) ==
    LET r == NewRecord(text) IN
    [kind |-> "record", Type |-> TextString(r.Type), Msg |-> TextString(r.Msg),
     Body |-> [k \in {TextString(q) : q \in DOMAIN r.Body} |->
                  r.Body[CHOOSE q \in DOMAIN r.Body : TextString(q) = k]]]

\* a line given as text, with what NewRecord does on it: the exit through
\* log.Fatal, or the Record
RawLine(text) ==
    [kind |-> "raw", text |-> text,
     fatal |-> NewRecordFatal(text),
     parsed |-> IF NewRecordFatal(text) THEN <<>> ELSE RecordLine(text)]

\* rs.AddLine(line) exits through log.Fatal in NewRecord
AddLineFatal(line) == line.kind = "raw" /\ line.fatal

\* the line as rs.AddLine takes it in
ParsedLine(line) == IF line.kind = "raw" THEN line.parsed ELSE line

\* type=CONFIG_CHANGE msg=audit(1:2)
ConfigChangeHeader ==
    JoinSpace(<<KV("type", "CONFIG_CHANGE"), <<"msg", "=", "audit(1", ":", "2)">>>>)

\* type=CONFIG_CHANGE msg=audit(1:2): op=set
ConfigChangeLine == RawLine(ConfigChangeHeader \o <<":", " ">> \o KV("op", "set"))

\* type=CONFIG_CHANGE msg=audit(1:2): key=k=v
ConfigChangeKeyLine ==
    RawLine(ConfigChangeHeader \o <<":", " ">> \o <<"key", "=", "k", "=", "v">>)

\* type=PATH (no ": " in the line)
MalformedLine == RawLine(KV("type", "PATH"))

\* time->Mon Jan  1 00:00:01 2024, and the same a second later
TimeLine(rest) == [kind |-> "time", rest |-> rest]
Time1 == <<"M", "o", "n", "1">>
Time2 == <<"M", "o", "n", "2">>

\* the lines a log file of SpecFile is made of
FileLines ==
    {AuditdSep,
     TimeLine(Time1),
     TimeLine(Time2),
     SyscallLine("yes"),
     SyscallLine("no"),
     PathLine("CREATE", TmpName),
     PathLine("NORMAL", TmpNAME),
     PathLine("", TmpName),
     ConfigChangeLine,
     ConfigChangeKeyLine,
     MalformedLine}

\* the file is not read yet
InitFile == Idle /\ input = <<>>

\* ioutil.ReadFile and strings.Split(contentStr, "\n"), which has at least
\* one element
ReadFileUpTo(max) ==
    /\ status = "run" /\ input = <<>>
    /\ \E n \in 1..max : input' \in [1..n -> FileLines]
    /\ UNCHANGED <<flagJson, history, reports, stdout, status, applied, lines,
                   rs, inodes, idx, events, output>>

ReadFile == ReadFileUpTo(MaxFileLen)

\* a loop that takes the line before the next one again
ReadCursorAgain(ls) == IF Len(ls) = 0 THEN 1 ELSE Len(ls)

\* the index of the line the loop of ParseLog takes next
ReadCursor(ls) == Len(ls) + 1

\* the loop has run over all lines
AtEndOfFile == Len(lines) = Len(input)

\* one iteration of the loop of ParseLog on a line that is not the separator
FileAddLine ==
    /\ status = "run" /\ inodes = <<>> /\ ~AtEndOfFile
    /\ LET line == input[ReadCursor(lines)] IN
        /\ line # AuditdSep
        /\ lines' = Append(lines, line)
        /\ status' = IF AddLineFatal(line) THEN "fatal" ELSE status
        /\ rs' = IF AddLineFatal(line) THEN rs ELSE AddLine(rs, ParsedLine(line))
    /\ UNCHANGED <<flagJson, history, reports, stdout, applied, inodes, idx,
                   events, input, output>>

\* one iteration of the loop of ParseLog on the separator: GetInodes, and
\* ApplyInodes begins (ApplyNext goes on with it)
FileSeparator ==
    /\ status = "run" /\ inodes = <<>> /\ ~AtEndOfFile
    /\ input[ReadCursor(lines)] = AuditdSep
    /\ lines' = Append(lines, AuditdSep)
    /\ IF GetInodesFatal(rs)
       THEN /\ status' = "fatal"
            /\ UNCHANGED <<rs, inodes, events>>
       ELSE /\ events' = Append(events, GetInodes(rs))
            /\ inodes' = GetInodes(rs)
            /\ rs' = IF GetInodes(rs) = <<>> THEN NewRecords ELSE rs
            /\ UNCHANGED status
    /\ UNCHANGED <<flagJson, history, reports, stdout, applied, idx, input,
                   output>>

\* the loop is over: ParseLog returns and the deferred tm.Close runs
FileFinish ==
    /\ status = "run" /\ inodes = <<>> /\ input # <<>> /\ AtEndOfFile
    /\ status' = "done"
    /\ Close
    /\ UNCHANGED <<flagJson, history, reports, applied, lines, rs, inodes,
                   idx, events, input, output>>

NextFile == ReadFile \/ FileAddLine \/ FileSeparator \/ ApplyNext \/ FileFinish

SpecFile == InitFile /\ [][NextFile]_vars

\* ParseLog is one sequential loop in one goroutine: whenever it can take a
\* step it does
ReadFairFile == ReadFileUpTo(MaxFairFileLen)

NextFairFile ==
    ReadFairFile \/ FileAddLine \/ FileSeparator \/ ApplyNext \/ FileFinish

FairSpecFile == InitFile /\ [][NextFairFile]_vars /\ WF_vars(NextFairFile)

(***************************************************************************)
(* Properties of the run over a given file (specification SpecFile).       *)
(***************************************************************************)
\* C12: the Apply of an Inode whose Operation is none of CREATE, NORMAL,
\* PARENT, DELETE, UNKNOWN ends the run as fatal and leaves history and the
\* Violations as they were, whether its syscall succeeded or not; and once
\* the run is fatal nothing changes any more: no Apply, no line read, no
\* Event replayed.
C12_BadRoleStops ==
    [][/\ (IsApplyStep /\ AppliedInode.Operation \notin Operations) =>
            /\ status' = "fatal"
            /\ history' = history
            /\ Violations' = Violations
       /\ status = "fatal" => UNCHANGED vars
    ]_vars

\* C12 witness: a PATH record with an empty nametype of a failed syscall
\* was applied and the run is fatal, with a CREATE of the same Event not
\* applied
C12_Witness ==
    /\ status = "fatal"
    /\ applied # <<>>
    /\ applied[Len(applied)].Operation = ""
    /\ ~applied[Len(applied)].Syscall.Success
    /\ idx < Len(inodes)
    /\ inodes[1].Operation = "CREATE"

\* the Inodes lists of the Events replayed before the one the run aborted in
EventsBeforeAbort ==
    IF inodes # <<>> THEN SubSeq(events, 1, Len(events) - 1) ELSE events

\* history and the Violations are those of the Events before the aborted one
NothingOfAbortedEvent ==
    LET tm == Replay([history |-> NewTimeline, reports |-> <<>>, fatal |-> FALSE],
                     Flatten(EventsBeforeAbort))
    IN  history = tm.history /\ Violations = tm.reports

\* C13: when the run has aborted on a line of an Event (a line NewRecord
\* rejects, or a PATH record with an unrecognized nametype), no Inode of
\* that Event has changed history and no Violation of that Event is
\* reported.
C13_NoPartialEvent ==
    status = "fatal" => NothingOfAbortedEvent

\* an abort while the Event is still being assembled (in AddLine or in
\* GetInodes) leaves nothing of the Event behind
AbortInAssemblyLeavesNothing ==
    (status = "fatal" /\ inodes = <<>>) => NothingOfAbortedEvent

\* the kind a line states in its header (type=...), "" when it states none
LineKind(line) ==
    IF line.kind = "record" THEN line.Type
    ELSE IF line.kind = "raw"
         THEN TextString(MapGet(ParseKVPairs(SplitColonSpace(line.text, <<>>)[1]).m,
                                <<"type">>))
    ELSE ""

\* a Record line whose kind is none of SYSCALL, PROCTITLE, CWD, PATH
IsOtherKind(line) ==
    /\ line.kind \in {"record", "raw"}
    /\ LineKind(line) \notin {"", "SYSCALL", "PROCTITLE", "CWD", "PATH"}

\* C18: the run does not abort on a line of another kind, whatever its
\* body: when the line read last is of a kind other than SYSCALL, PROCTITLE,
\* CWD and PATH, the run is not fatal.
C18_OtherKindNeverAborts ==
    (lines # <<>> /\ IsOtherKind(lines[Len(lines)])) => status # "fatal"

\* a line of another kind that NewRecord accepts changes neither history
\* nor the Violations, is not applied and adds no Inode to its Event
AcceptedOtherKindHarmless ==
    [][(/\ Len(lines') = Len(lines) + 1
        /\ IsOtherKind(lines'[Len(lines')])
        /\ status' = "run") =>
            /\ history' = history
            /\ Violations' = Violations
            /\ applied' = applied
            /\ PathRecords(rs'.Records) = PathRecords(rs.Records)
    ]_vars

\* the number of lines of kind t in an Event
CountKind(ev, t) == Cardinality({j \in 1..Len(ev) : LineKind(ev[j]) = t})

\* C19: every Event handed to GetInodes (the lines between two separators
\* that AddLine accepted) has at most one SYSCALL, at most one PROCTITLE and
\* at most one CWD record.
C19_AtMostOneOfEach ==
    \A k \in 1..Len(ClosedEvents(lines)) :
        \A t \in {"SYSCALL", "PROCTITLE", "CWD"} :
            CountKind(ClosedEvents(lines)[k], t) <= 1

(***************************************************************************)
(* Termination (specification FairSpecFile).                               *)
(***************************************************************************)
\* the lines read so far are the first lines of the file, in file order
ReadInFileOrder ==
    /\ Len(lines) <= Len(input)
    /\ \A k \in 1..Len(lines) : lines[k] = input[k]

\* C20: the run over a file ends, normally or by a fatal abort; the lines
\* it has read are at every moment the first lines of the file in file
\* order, each step reads at most the one next line, and a run that ends
\* normally has read every line.
C20_Terminates ==
    /\ <>(status # "run")
    /\ [](ReadInFileOrder /\ (status = "done" => lines = input))
    /\ [][Len(lines') = Len(lines) \/ Len(lines') = Len(lines) + 1]_vars

\* C20 witness: the run over a file of three lines, an Event with a CREATE
\* and its separator, has ended normally with every line read
C20_Witness ==
    /\ status = "done"
    /\ lines = input
    /\ Len(lines) = 3
    /\ lines[3] = AuditdSep
    /\ Len(applied) = 1
    /\ applied[1].Operation = "CREATE"

(***************************************************************************)
(* More properties of NewRecord and ParseKVPairs (specification SpecParse).*)
(***************************************************************************)
\* the number of places of the line at which ": " stands
CountColonSpace(line) ==
    Cardinality({i \in 1..(Len(line) - 1) : line[i] = ":" /\ line[i + 1] = " "})

\* NewRecord has run on the line: it returned a Record or ended the run
NewRecordRan == output # <<>> \/ status = "fatal"

\* C21 as stated: a line in which ": " stands at least once, and whose
\* parts before and after the first ": " ParseKVPairs accepts, yields a
\* Record whose body is parsed from all that follows the first ": ".
C21_SplitAtFirst ==
    (/\ NewRecordRan
     /\ CountColonSpace(input) >= 1
     /\ ParseKVPairs(HeaderOf(input)).ok
     /\ ParseKVPairs(BodyOf(input)).ok) =>
        /\ output # <<>>
        /\ output[1].Body = ParseKVPairs(BodyOf(input)).m

\* C21: a line yields a Record only if ": " stands in it exactly once, and
\* then the body is parsed from what follows it; a line with no ": " and a
\* line with ": " again inside the body both end the run.
C21_ExactlyOneSplit ==
    NewRecordRan =>
        /\ CountColonSpace(input) # 1 => status = "fatal"
        /\ output # <<>> =>
              /\ CountColonSpace(input) = 1
              /\ output[1].Body = ParseKVPairs(BodyOf(input)).m

\* C21 witness: the run ended on a line with ": " twice whose header, and
\* whose text after the first ": ", ParseKVPairs accepts
C21_Witness ==
    /\ status = "fatal"
    /\ CountColonSpace(input) = 2
    /\ HasTypeAndMsg(input)
    /\ ParseKVPairs(HeaderOf(input)).ok
    /\ ParseKVPairs(BodyOf(input)).ok

\* the number of "=" in a token
CountEq(token) == Cardinality({i \in 1..Len(token) : token[i] = "="})

\* the token is key=value with the key msg or proctitle
IsAccumulationTarget(token) ==
    /\ CountEq(token) = 1
    /\ token[1] \in {"msg", "proctitle"} /\ token[2] = "="

\* the text has a token with more than one "=", or a non-empty token with
\* no "=" that no msg= or proctitle= token precedes
HasFatalToken(text) ==
    LET tokens == Split(text, " ", <<>>) IN
    \E k \in 1..Len(tokens) :
        \/ CountEq(tokens[k]) > 1
        \/ /\ CountEq(tokens[k]) = 0
           /\ tokens[k] # <<>>
           /\ \A j \in 1..(k - 1) : ~IsAccumulationTarget(tokens[j])

\* C22: ParseKVPairs ends the run, and returns no mapping, exactly when
\* the text has a non-empty token without "=" met before any msg or
\* proctitle key, or a token with more than one "=" (wherever it stands,
\* also after a msg or proctitle key).
C22_FatalTokens ==
    (NewRecordRan /\ CountColonSpace(input) = 1) =>
        /\ (HasFatalToken(HeaderOf(input)) \/ HasFatalToken(BodyOf(input)))
              <=> status = "fatal"
        /\ status = "fatal" => output = <<>>

\* C22 witness: the run ended on a body in which a token with two "="
\* follows a msg key
C22_Witness ==
    /\ status = "fatal"
    /\ output = <<>>
    /\ CountColonSpace(input) = 1
    /\ ~HasFatalToken(HeaderOf(input))
    /\ BodyOf(input) = JoinSpace(<<KV("msg", "m"), <<"a", "=", "b", "=", "c">>>>)

(***************************************************************************)
(* Frame and equivalence properties of Timeline.Apply (specification Spec). *)
(***************************************************************************)
\* C23: the Apply of a NORMAL, PARENT or UNKNOWN Inode, and of a CREATE
\* whose syscall failed or whose path is "(null)", leaves history exactly
\* as it was, also when it reports a Violation: the recorded CREATE stays
\* and a later mismatching use is reported against it again.
C23_HistoryFrame ==
    [][(/\ IsApplyStep
        /\ \/ AppliedInode.Operation \in {"NORMAL", "PARENT", "UNKNOWN"}
           \/ /\ AppliedInode.Operation = "CREATE"
              /\ (~AppliedInode.Syscall.Success \/ AppliedInode.Path = NullPath))
        => /\ history' = history
           /\ \A k \in 1..Len(Violations') :
                 k > Len(Violations) =>
                    /\ Name(AppliedInode) \in DOMAIN history'
                    /\ history'[Name(AppliedInode)] = Violations'[k].Create
    ]_vars

\* C23 witness: the same mismatching use applied twice after the CREATE is
\* reported twice, and the CREATE is still the history entry
C23_Witness ==
    /\ Len(applied) = 3
    /\ applied[1] = Ino("CREATE", "100", PathName, 0, TRUE, CwdD)
    /\ applied[2] = Ino("NORMAL", "100", PathNAME, 0, TRUE, CwdD)
    /\ applied[3] = applied[2]
    /\ Violations = <<[Create |-> applied[1], Use |-> applied[2]],
                      [Create |-> applied[1], Use |-> applied[3]]>>
    /\ history[Name(applied[1])] = applied[1]

\* the Inode with the other of the roles NORMAL and PARENT
OtherUseRole(i) ==
    [i EXCEPT !.Operation = IF i.Operation = "NORMAL" THEN "PARENT" ELSE "NORMAL"]

\* the Timeline of the current history, with nothing reported
TimelineNow == [history |-> history, reports |-> <<>>, fatal |-> FALSE]

\* C24: in every state of the Timeline and for every Inode of role NORMAL
\* or PARENT, the Apply of the Inode and the Apply of the same Inode with
\* the other role give the same history, and the same Violation (the same
\* CREATE against the same use, the role of the use apart) or none.
C24_NormalParentSame ==
    \A i \in {j \in TimelineInodes : IsUse(j)} :
        LET a == ApplyTo(TimelineNow, i)
            b == ApplyTo(TimelineNow, OtherUseRole(i))
        IN  /\ a.history = b.history
            /\ a.fatal = b.fatal
            /\ Len(a.reports) = Len(b.reports)
            /\ \A k \in 1..Len(a.reports) :
                  /\ a.reports[k].Create = b.reports[k].Create
                  /\ a.reports[k].Use = OtherUseRole(b.reports[k].Use)

\* C24 witness: after the CREATE of /d/n, the NORMAL and the PARENT of /d/N
\* were both applied and both reported against that CREATE
C24_Witness ==
    /\ Len(applied) = 3
    /\ applied[1] = Ino("CREATE", "100", PathName, 0, TRUE, CwdD)
    /\ applied[2] = Ino("NORMAL", "100", PathNAME, 0, TRUE, CwdD)
    /\ applied[3] = OtherUseRole(applied[2])
    /\ Violations = <<[Create |-> applied[1], Use |-> applied[2]],
                      [Create |-> applied[1], Use |-> applied[3]]>>

(***************************************************************************)
(* Timestamps of the Records of an Event (specification SpecFile).         *)
(***************************************************************************)
\* C25: every Record of the Event being assembled carries the timestamp
\* the Event's time-> line has set, wherever that line stands among the
\* Event's lines and however many there are.
C25_SharedTimestamp ==
    \A k \in 1..Len(rs.Records) : rs.Records[k].Timestamp = rs.Timestamp

\* the lines of the Event being assembled
AssembledLines == IF inodes = <<>> /\ status = "run" THEN OpenEvent(lines) ELSE <<>>

\* when the one time-> line of an Event is its first line, every Record of
\* the Event carries its timestamp
TimeLineFirstShared ==
    LET ev == AssembledLines IN
    (/\ Len(ev) > 0 /\ ev[1].kind = "time"
     /\ \A k \in 2..Len(ev) : ev[k].kind # "time") =>
        \A k \in 1..Len(rs.Records) : rs.Records[k].Timestamp = ev[1].rest

(***************************************************************************)
(* More properties of NormalizedPath (specification SpecNorm).             *)
(***************************************************************************)
\* C26: the normalized path of an Inode whose path is not "(null)" begins
\* with "/", whatever the working directory, also when there is none; and
\* a path that is "(null)" is returned as it is.
C26_AbsoluteForm ==
    Len(output) >= 1 =>
        IF input.Path = NullPath THEN output[1] = NullPath
        ELSE Len(output[1]) > 0 /\ output[1][1] = "/"

\* with an absolute working directory, the normalized path of a non-empty
\* path begins with "/", or is empty when a directory resolves to the root
AbsoluteUnderAbsoluteCwd ==
    (/\ Len(output) >= 1
     /\ input.Cwd = CwdD
     /\ input.Path \notin {<<>>, NullPath}) =>
        \/ Len(output[1]) > 0 /\ output[1][1] = "/"
        \/ output[1] = <<>> /\ IsDir(input) /\ getAbsPath(input) = <<"/">>

\* the number of "/" a path ends in
RECURSIVE TrailingSeparators(_)
TrailingSeparators(p) ==
    IF Len(p) = 0 \/ p[Len(p)] # "/" THEN 0
    ELSE 1 + TrailingSeparators(SubSeq(p, 1, Len(p) - 1))

\* C27: for an Inode that is not a directory the normalized path ends in
\* as many "/" as the path, relative or absolute; for a directory it ends
\* in exactly one less (when the path ends in one at all).
C27_TrailingSeparatorByType ==
    (Len(output) >= 1 /\ input.Path # NullPath) =>
        LET n == TrailingSeparators(input.Path) IN
        IF input.Mode = DirMode /\ n > 0
        THEN TrailingSeparators(output[1]) = n - 1
        ELSE TrailingSeparators(output[1]) = n

\* for an absolute path the trailing "/" are handled by IsDir alone: one
\* less when IsDir holds, else as many
TrailingSeparatorOfAbsolute ==
    (/\ Len(output) >= 1
     /\ Len(input.Path) > 0 /\ input.Path[1] = "/") =>
        LET n == TrailingSeparators(input.Path) IN
        IF IsDir(input) /\ n > 0
        THEN TrailingSeparators(output[1]) = n - 1
        ELSE TrailingSeparators(output[1]) = n

(***************************************************************************)
(* IsDir on the mode field of a PATH record (specification SpecMode).  The *)
(* trace prints st_mode in octal: 040755 is a directory, 0100644 a regular *)
(* file, 0120777 a symbolic link.                                          *)
(***************************************************************************)
OctalDigits == {"0", "1", "2", "3", "4", "5", "6", "7"}

\* the mode fields of directories, regular files and symbolic links
ModeStrings ==
    {t \o <<u, g, o>> :
        t \in {<<"0", "4", "0">>, <<"0", "1", "0", "0">>, <<"0", "1", "2", "0">>},
        u \in OctalDigits, g \in OctalDigits, o \in OctalDigits}

\* the PATH record of a line with this mode field, in an Event of its own
ModeRecord(mode) ==
    [Type |-> "PATH", Msg |-> "audit(1.0:1)", Timestamp |-> <<>>,
     Body |-> [PathLine("NORMAL", TmpName).Body EXCEPT !.mode = mode]]

\* the SYSCALL record of the same Event
ModeSyscallRecord ==
    [Type |-> "SYSCALL", Msg |-> "audit(1.0:1)", Timestamp |-> <<>>,
     Body |-> SyscallLine("yes").Body]

InitMode == Idle /\ input \in ModeStrings

\* NewInode(...).IsDir() for the PATH record with the mode field
ModeIsDir ==
    /\ output = <<>>
    /\ output' = <<IsDir(NewInode(ModeSyscallRecord, ZeroRecord, ZeroRecord,
                                  ModeRecord(input)))>>
    /\ UNCHANGED <<flagJson, history, reports, stdout, status, applied, lines,
                   rs, inodes, idx, events, input>>

NextMode == ModeIsDir

SpecMode == InitMode /\ [][NextMode]_vars

\* the number an octal string denotes
RECURSIVE OctalValue(_, _)
OctalValue(s, acc) ==
    IF Len(s) = 0 THEN acc ELSE OctalValue(Tail(s), 8 * acc + DigitVal(Head(s)))

\* the S_IFDIR bit (octal 040000) is set in the mode the string prints
DirBitSet(mode) ==
    BitAnd(OctalValue(mode, 0), OctalValue(<<"0", "4", "0", "0", "0", "0">>, 0)) # 0

\* C28: IsDir is true exactly when the S_IFDIR bit is set in the mode the
\* field prints: true for every directory mode, false for every
\* regular-file and symbolic-link mode.
C28_IsDirExact ==
    Len(output) = 1 => (output[1] <=> DirBitSet(input))

\* every directory mode is classified as a directory
DirectoryModeIsDir ==
    (Len(output) = 1 /\ DirBitSet(input)) => output[1]

\* read in base 10 and cut to 16 bits, every mode of a directory, regular
\* file or symbolic link has a bit of the decimal mask, and IsDir is true
IsDirOfEveryPrintedMode ==
    Len(output) = 1 => output[1]

(***************************************************************************)
(* Syscall.FlagCreate (specification SpecFlag).  The input is a SYSCALL    *)
(* record and the table of ausyscall --dump, which is that of the host the *)
(* monitor runs on.                                                        *)
(***************************************************************************)
HexDigits == <<"0", "1", "2", "3", "4", "5", "6", "7", "8", "9",
               "a", "b", "c", "d", "e", "f">>

HexVal(c) == CHOOSE d \in 0..15 : HexDigits[d + 1] = c

RECURSIVE BaseValue(_, _, _)
BaseValue(s, base, acc) ==
    IF Len(s) = 0 THEN acc ELSE BaseValue(Tail(s), base, base * acc + HexVal(Head(s)))

\* strconv.ParseUint(s, base, 64) with the error dropped: 0 when the string
\* is empty or has a character that is no digit of the base
ParseUint(s, base) ==
    IF Len(s) = 0 THEN 0
    ELSE IF \E k \in 1..Len(s) :
                ~(\E d \in 0..(base - 1) : HexDigits[d + 1] = s[k]) THEN 0
    ELSE BaseValue(s, base, 0)

\* AuSyscalls: nil when ausyscall is missing, else number -> name
NoTable == [nil |-> TRUE, names |-> [n \in {} |-> ""]]

\* the table of an x86_64 host
TableX86 ==
    [nil |-> FALSE,
     names |-> [n \in {0, 2, 257, 437} |->
                  CASE n = 0 -> "read" [] n = 2 -> "open"
                    [] n = 257 -> "openat" [] n = 437 -> "openat2"]]

\* the table of an aarch64 host
TableArm64 ==
    [nil |-> FALSE,
     names |-> [n \in {2, 56, 437} |->
                  CASE n = 2 -> "io_submit" [] n = 56 -> "openat"
                    [] n = 437 -> "openat2"]]

\* NewSyscall: the fields of Syscall that FlagCreate reads
NewSyscallArgs(r, table) ==
    LET number == ParseUint(BodyChars(r, "syscall"), 10)
    IN  [Number |-> number,
         Name |-> IF table.nil THEN ""
                  ELSE IF number \in DOMAIN table.names THEN table.names[number]
                  ELSE "",
         A1 |-> ParseUint(BodyChars(r, "a1"), 16),
         A2 |-> ParseUint(BodyChars(r, "a2"), 16)]

O_CREAT == 64

\* Syscall.FlagCreate
FlagCreate(s) ==
    IF s.Name = "open" \/ s.Number = 2 THEN BitAnd(s.A1, O_CREAT) > 1
    ELSE IF s.Name = "openat" \/ s.Number = 257 THEN BitAnd(s.A2, O_CREAT) > 1
    ELSE FALSE

\* the values of a0..a3 in a trace: hexadecimal without prefix
ArgStrings == {<<"0">>, <<"4", "0">>, <<"2", "4", "1">>, <<"8", "0", "1">>}

SyscallNumbers ==
    {<<"0">>, <<"2">>, <<"5", "6">>, <<"2", "5", "7">>, <<"4", "3", "7">>}

\* type=SYSCALL ... syscall=N ... a1=X a2=Y
SyscallRecords ==
    {[Type |-> "SYSCALL", Msg |-> "audit(1.0:1)", Timestamp |-> <<>>,
      Body |-> [syscall |-> n, a1 |-> x, a2 |-> y, success |-> "yes"]] :
        n \in SyscallNumbers, x \in ArgStrings, y \in ArgStrings}

InitFlag ==
    /\ Idle
    /\ input \in [record : SyscallRecords, table : {NoTable, TableX86, TableArm64}]

\* NewSyscall(r).FlagCreate()
CallFlagCreate ==
    /\ output = <<>>
    /\ output' = <<FlagCreate(NewSyscallArgs(input.record, input.table))>>
    /\ UNCHANGED <<flagJson, history, reports, stdout, status, applied, lines,
                   rs, inodes, idx, events, input>>

NextFlag == CallFlagCreate

SpecFlag == InitFlag /\ [][NextFlag]_vars

\* the bit of octal 0100 is set in n
CreatBitSet(n) == (n \div 64) % 2 = 1

\* the syscall of the record: its resolved name when a name was resolved,
\* else the one of the fixed numbers 2, 257, 437
IdentifiedSyscall(s) ==
    IF s.Name # "" THEN s.Name
    ELSE CASE s.Number = 2 -> "open"
           [] s.Number = 257 -> "openat"
           [] s.Number = 437 -> "openat2"
           [] OTHER -> ""

\* what FlagCreate is to report for a syscall identified so
FlagCreateByIdentity(s) ==
    CASE IdentifiedSyscall(s) = "open" -> CreatBitSet(s.A1)
      [] IdentifiedSyscall(s) = "openat" -> CreatBitSet(s.A2)
      [] OTHER -> FALSE

\* C29: FlagCreate is the O_CREAT bit of a1 for open and of a2 for openat,
\* and false for openat2 and every other syscall, where the syscall is the
\* resolved name when there is one and else the fixed number.
C29_FlagCreateByName ==
    Len(output) = 1 =>
        output[1] = FlagCreateByIdentity(NewSyscallArgs(input.record, input.table))

\* when no name is resolved, or the table is that of x86_64, FlagCreate is
\* the O_CREAT bit of the argument of the identified syscall
FlagCreateWhereNumbersAgree ==
    (Len(output) = 1 /\ input.table \in {NoTable, TableX86}) =>
        output[1] = FlagCreateByIdentity(NewSyscallArgs(input.record, input.table))

(***************************************************************************)
(* The Event without a SYSCALL record (specification SpecFile).            *)
(***************************************************************************)
\* the Event assembled so far has a Record of the type
HasRecordOfType(type) == \E k \in 1..Len(rs.Records) : rs.Records[k].Type = type

\* C30: when the separator closes an Event, the run aborts there exactly
\* when the Event has a PATH record and no SYSCALL record, and then no
\* Inode of the Event is built or applied; an Event without a PATH record
\* does not abort there.
C30_PathNeedsSyscall ==
    [][(status = "run" /\ lines' = Append(lines, AuditdSep)) =>
          /\ status' = "fatal" <=>
                (HasRecordOfType("PATH") /\ ~HasRecordOfType("SYSCALL"))
          /\ status' = "fatal" =>
                (inodes' = <<>> /\ events' = events /\ history' = history)
          /\ ~HasRecordOfType("PATH") => (status' = "run" /\ inodes' = <<>>)]_vars

\* the run has aborted at the separator of an Event with a PATH record and
\* no SYSCALL record, after an Event with neither that did not abort
C30_Witness ==
    /\ status = "fatal"
    /\ Len(lines) >= 3
    /\ lines[Len(lines)] = AuditdSep
    /\ HasRecordOfType("PATH") /\ ~HasRecordOfType("SYSCALL")
    /\ events = <<<<>>>>

(***************************************************************************)
(* PathActions without identity (specification SpecAnon): the PATH record  *)
(* has no dev and no inode field, so that Name is "|".                     *)
(***************************************************************************)
\* the Inode NewInode builds from a PATH record without dev and inode
AnonIno(op, path) == [Ino(op, "", path, 0, TRUE, CwdD) EXCEPT !.Device = ""]

AnonInodes ==
    {AnonIno(op, p) : op \in {"CREATE", "NORMAL", "DELETE", "UNKNOWN"},
                      p \in {PathName, PathNAME}}

\* tm.Apply(i) for some Inode i without identity
ApplyAnon ==
    /\ status = "run"
    /\ Len(applied) < MaxApply
    /\ \E i \in AnonInodes : Apply(i)
    /\ UNCHANGED <<flagJson, lines, rs, inodes, idx, events, input, output>>

NextAnon == ApplyAnon

SpecAnon == Init /\ [][NextAnon]_vars

\* C31: an Inode whose Name is "|" is never the recorded CREATE of history
\* and is on neither side of a Violation.
C31_NoIdentityNoSignificance ==
    /\ "|" \notin DOMAIN history
    /\ \A k \in 1..Len(Violations) :
          Name(Violations[k].Create) # "|" /\ Name(Violations[k].Use) # "|"

(***************************************************************************)
(* ParseKVPairs on a text of up to MaxKVTokens tokens (specification       *)
(* SpecKV), and on the same text without its empty tokens.                 *)
(***************************************************************************)
MaxKVTokens == 4

KVTokens ==
    {KV("a", "b"), KV("msg", "m"), KV("proctitle", "p"), <<"x">>, <<>>,
     <<"a", "=", "b", "=", "c">>}

InitKV ==
    /\ Idle
    /\ \E n \in 0..MaxKVTokens :
         \E t \in [1..n -> KVTokens] : input = JoinSpace(t)

\* the text without its empty tokens
RECURSIVE NonEmptyTokens(_)
NonEmptyTokens(tokens) ==
    IF tokens = <<>> THEN <<>>
    ELSE IF Head(tokens) = <<>> THEN NonEmptyTokens(Tail(tokens))
    ELSE <<Head(tokens)>> \o NonEmptyTokens(Tail(tokens))

WithoutEmptyTokens(text) == JoinSpace(NonEmptyTokens(Split(text, " ", <<>>)))

\* result := ParseKVPairs(str)
ParseKV ==
    /\ status = "run" /\ output = <<>>
    /\ IF ~ParseKVPairs(input).ok
       THEN status' = "fatal" /\ UNCHANGED output
       ELSE output' = <<ParseKVPairs(input).m>> /\ UNCHANGED status
    /\ UNCHANGED <<flagJson, history, reports, stdout, applied, lines, rs,
                   inodes, idx, events, input>>

\* ParseKVPairs of the text without its empty tokens
ParseKVWithoutEmpty ==
    /\ status = "run" /\ Len(output) = 1
    /\ IF ~ParseKVPairs(WithoutEmptyTokens(input)).ok
       THEN status' = "fatal" /\ UNCHANGED output
       ELSE /\ output' = Append(output, ParseKVPairs(WithoutEmptyTokens(input)).m)
            /\ UNCHANGED status
    /\ UNCHANGED <<flagJson, history, reports, stdout, applied, lines, rs,
                   inodes, idx, events, input>>

NextKV == ParseKV \/ ParseKVWithoutEmpty

SpecKV == InitKV /\ [][NextKV]_vars

\* the token is key=value with this key
Assigns(token, key) ==
    CountEq(token) = 1 /\ SubSeq(token, 1, Len(key) + 1) = key \o <<"=">>

\* the key a token without "=" is appended to: msg when a msg= token
\* precedes it, else proctitle when a proctitle= token precedes it
AppendTarget(tokens, i) ==
    IF \E j \in 1..(i - 1) : Assigns(tokens[j], <<"msg">>) THEN <<"msg">>
    ELSE IF \E j \in 1..(i - 1) : Assigns(tokens[j], <<"proctitle">>)
    THEN <<"proctitle">>
    ELSE <<>>

\* the tokens from position i on that are appended to the key
RECURSIVE AppendedFrom(_, _, _)
AppendedFrom(tokens, key, i) ==
    IF i > Len(tokens) THEN <<>>
    ELSE IF CountEq(tokens[i]) = 0 /\ AppendTarget(tokens, i) = key
    THEN <<" ">> \o tokens[i] \o AppendedFrom(tokens, key, i + 1)
    ELSE AppendedFrom(tokens, key, i + 1)

\* the value of the key: that of its last key=value token, and the tokens
\* appended since
ValueOf(tokens, key) ==
    LET j == CHOOSE j \in 1..Len(tokens) :
                /\ Assigns(tokens[j], key)
                /\ \A k \in (j + 1)..Len(tokens) : ~Assigns(tokens[k], key)
    IN  SubSeq(tokens[j], Len(key) + 2, Len(tokens[j]))
            \o AppendedFrom(tokens, key, j + 1)

\* C32: in the mapping ParseKVPairs returns, a token without "=" is
\* appended after a space to the value of msg when msg is already a key,
\* else to the value of proctitle when proctitle is already a key, msg
\* before proctitle when both are; every key has the value of its last
\* key=value token and of the tokens so appended, and nothing else.
C32_BareTokenAppended ==
    Len(output) >= 1 =>
        LET tokens == Split(input, " ", <<>>) IN
        /\ DOMAIN output[1] =
              {k \in {<<"a">>, <<"msg">>, <<"proctitle">>} :
                  \E j \in 1..Len(tokens) : Assigns(tokens[j], k)}
        /\ \A k \in DOMAIN output[1] : output[1][k] = ValueOf(tokens, k)

\* C32 witness: "proctitle=p msg=m x" gives msg "m x" and proctitle "p";
\* the text without msg= would give proctitle "p x"
C32_Witness ==
    /\ Len(output) >= 1
    /\ input = JoinSpace(<<KV("proctitle", "p"), KV("msg", "m"), <<"x">>>>)
    /\ output[1][<<"msg">>] = <<"m", " ", "x">>
    /\ output[1][<<"proctitle">>] = <<"p">>
    /\ ParseKVPairs(JoinSpace(<<KV("proctitle", "p"), <<"x">>>>)).m[<<"proctitle">>]
          = <<"p", " ", "x">>

\* C33: the mapping of a text is the mapping of the text without its empty
\* tokens, whether or not msg or proctitle is a key when the empty token
\* is met.
C33_EmptyTokenSkipped ==
    Len(output) = 2 => output[2] = output[1]

\* an empty token met before any msg= and proctitle= token is skipped
EmptyTokenSkippedBeforeMsg ==
    LET tokens == Split(input, " ", <<>>) IN
    (/\ Len(output) = 2
     /\ \A i \in 1..Len(tokens) :
           tokens[i] = <<>> => AppendTarget(tokens, i) = <<>>)
        => output[2] = output[1]

(***************************************************************************)
(* Soundness of the Violations (specification SpecSound).                  *)
(***************************************************************************)
\* the Inodes of one identity the soundness of the Violations is about
SoundInodes ==
    {Ino("CREATE", "100", p, 0, TRUE, CwdD) : p \in {PathName, PathNAME, NullPath}}
    \cup {Ino("CREATE", "100", PathName, 0, FALSE, CwdD)}
    \cup {Ino("NORMAL", "100", p, 0, TRUE, CwdD) : p \in {PathName, PathNAME, NullPath}}
    \cup {Ino("NORMAL", "100", PathNAME, 0, FALSE, CwdD)}
    \cup {Ino("PARENT", "100", PathNAME, 0, TRUE, CwdD)}
    \cup {Ino("DELETE", "100", PathName, 0, TRUE, CwdD)}
    \cup {Ino("NORMAL", "200", PathName, 0, TRUE, CwdD)}

\* tm.Apply(i) for some of these Inodes
ApplySound ==
    /\ status = "run"
    /\ Len(applied) < MaxApply
    /\ \E i \in SoundInodes : Apply(i)
    /\ UNCHANGED <<flagJson, lines, rs, inodes, idx, events, input, output>>

NextSound == ApplySound

SpecSound == Init /\ [][NextSound]_vars

\* the Violation pairs a CREATE and a use of one identity, both successful
\* and with a path other than "(null)", whose normalized paths differ
WellFormedViolation(v) ==
    /\ Name(v.Create) = Name(v.Use)
    /\ v.Create.Operation = "CREATE" /\ IsUse(v.Use)
    /\ v.Create.Syscall.Success /\ v.Use.Syscall.Success
    /\ v.Create.Path # NullPath /\ v.Use.Path # NullPath
    /\ NormalizedPath(v.Create) # NormalizedPath(v.Use)

\* the create of the Violation was applied before its use, with no DELETE
\* of the identity between them and no CREATE of it that Between(i) holds of
AppliedInOrder(v, Between(_)) ==
    \E c \in 1..Len(applied), u \in 1..Len(applied) :
        /\ c < u
        /\ applied[c] = v.Create /\ applied[u] = v.Use
        /\ \A k \in (c + 1)..(u - 1) :
              Name(applied[k]) = Name(v.Use) =>
                 /\ applied[k].Operation # "DELETE"
                 /\ ~Between(applied[k])

IsSuccessfulCreate(i) == i.Operation = "CREATE" /\ i.Syscall.Success

\* C34: every Violation pairs a successful CREATE and a successful NORMAL
\* or PARENT of one identity, neither with the path "(null)", with
\* different normalized paths, the CREATE applied before the use with no
\* DELETE and no successful CREATE of the identity in between.
C34_ViolationSound ==
    \A k \in 1..Len(Violations) :
        /\ WellFormedViolation(Violations[k])
        /\ AppliedInOrder(Violations[k], IsSuccessfulCreate)

\* C34 as amended: ... with no DELETE and no recorded CREATE (successful,
\* path other than "(null)") of the identity in between; a successful
\* CREATE with the path "(null)" may stand between them.
C34_ViolationSoundRecorded ==
    \A k \in 1..Len(Violations) :
        /\ WellFormedViolation(Violations[k])
        /\ AppliedInOrder(Violations[k], IsRecordedCreate)

\* C34 witness: CREATE /d/n, a successful CREATE "(null)", NORMAL /d/N: the
\* use is reported against the first CREATE
C34_Witness ==
    /\ Len(applied) = 3
    /\ applied[1] = Ino("CREATE", "100", PathName, 0, TRUE, CwdD)
    /\ applied[2] = Ino("CREATE", "100", NullPath, 0, TRUE, CwdD)
    /\ applied[3] = Ino("NORMAL", "100", PathNAME, 0, TRUE, CwdD)
    /\ Violations = <<[Create |-> applied[1], Use |-> applied[3]]>>

\* C35: one Apply adds at most one Violation to those reported, and the
\* Apply of a CREATE, DELETE or UNKNOWN Inode adds none, also when the
\* CREATE overwrites the recorded CREATE of its identity under another path.
C35_AtMostOneViolation ==
    [][IsApplyStep =>
        /\ Len(Violations') <= Len(Violations) + 1
        /\ SubSeq(Violations', 1, Len(Violations)) = Violations
        /\ AppliedInode.Operation \in {"CREATE", "DELETE", "UNKNOWN"}
              => Violations' = Violations
    ]_vars

\* C35 witness: the CREATE of /d/N has overwritten the recorded CREATE of
\* /d/n of the same identity, a DELETE followed, and nothing is reported
C35_Witness ==
    /\ Len(applied) = 3
    /\ applied[1] = Ino("CREATE", "100", PathName, 0, TRUE, CwdD)
    /\ applied[2] = Ino("CREATE", "100", PathNAME, 0, TRUE, CwdD)
    /\ applied[3].Operation = "DELETE"
    /\ Violations = <<>>
    /\ history = NewTimeline

(***************************************************************************)
(* The collected Reports at the end of the run (specification SpecLog).    *)
(* No step is taken once status is "done" or "fatal".                      *)
(***************************************************************************)
\* the collected Reports are on standard output
ReportsWritten ==
    \E k \in 1..Len(stdout) : stdout[k] = [kind |-> "json", reports |-> reports]

\* C36: in json mode, when the run has ended, normally or through
\* log.Fatal in a later line or Event, the Reports collected are on
\* standard output.
C36_NoViolationLost ==
    (flagJson /\ status \in {"done", "fatal"} /\ reports # <<>>) => ReportsWritten

\* when ParseLog returns, the Reports collected are on standard output
ReportsWrittenOnReturn ==
    (flagJson /\ status = "done" /\ reports # <<>>) => ReportsWritten

(***************************************************************************)
(* The two reporting modes on one trace (specification SpecModes).  What a *)
(* run does is compared with the replay of the trace's lines, which has no *)
(* reporting mode; two runs on one trace are so compared with each other.  *)
(***************************************************************************)
MaxModeLines == 5

\* ParseLog over a trace of at most MaxModeLines lines, in either mode
ReadModeLine == Len(lines) < MaxModeLines /\ ReadLine

CloseModeEvent == Len(lines) < MaxModeLines /\ CloseEvent

NextModes == ReadModeLine \/ CloseModeEvent \/ ApplyNext \/ Finish

SpecModes == Init /\ [][NextModes]_vars

\* the Records assembled from the lines of an Event
RECURSIVE EventRecords(_, _)
EventRecords(r, ev) ==
    IF Len(ev) = 0 THEN r ELSE EventRecords(AddLine(r, Head(ev)), Tail(ev))

\* the Inodes of the Events of the trace that a separator ends, in the
\* order ApplyInodes takes them
TraceInodes(ls) ==
    LET evs == ClosedEvents(ls) IN
    Flatten([e \in 1..Len(evs) |-> GetInodes(EventRecords(NewRecords, evs[e]))])

\* the Timeline of the replay of the trace
TraceTimeline(ls) ==
    Replay([history |-> NewTimeline, reports |-> <<>>, fatal |-> FALSE],
           TraceInodes(ls))

\* the (create, use) pairs standard output holds, in order: those of the
\* lines, and those of the document
PairsWritten ==
    IF flagJson
    THEN IF stdout = <<>> THEN <<>>
         ELSE IF Len(stdout) = 1 /\ stdout[1].kind = "json" THEN stdout[1].reports
         ELSE stdout
    ELSE [k \in 1..Len(stdout) |-> [Create |-> stdout[k].Create, Use |-> stdout[k].Use]]

\* C37: between two lines of a trace, history is that of the replay of the
\* trace in either mode; when the run has ended without abort, the pairs
\* on standard output are the Reports of the replay, in order, in either
\* mode; immediate mode has them there as soon as they are made.
C37_ModesAgree ==
    Quiescent =>
        LET tm == TraceTimeline(lines) IN
        /\ history = tm.history
        /\ status = "done" => PairsWritten = tm.reports
        /\ ~flagJson => PairsWritten = tm.reports

\* C37 witness: immediate mode has printed, one by one, the two pairs of a
\* trace that json mode serializes as one document
C37_Witness ==
    /\ status = "done"
    /\ ~flagJson
    /\ Len(stdout) = 2
    /\ stdout[1].kind = "line" /\ stdout[2].kind = "line"
    /\ Len(TraceTimeline(lines).reports) = 2
    /\ PairsWritten = TraceTimeline(lines).reports

(***************************************************************************)
(* The options of a run (specification SpecOpts).  input holds the flags   *)
(* -verbose, -abspath, -pretty, -logbadopen and the table AuSyscalls;      *)
(* lines holds the trace, one successful SYSCALL record and one PATH       *)
(* record per Event; output holds what the log package has written.        *)
(***************************************************************************)
\* NewSyscall: Success and the fields FlagCreate reads
NewSyscallFull(r, table) ==
    [Success |-> NewSyscall(r).Success,
     Number |-> NewSyscallArgs(r, table).Number,
     Name |-> NewSyscallArgs(r, table).Name,
     A1 |-> NewSyscallArgs(r, table).A1,
     A2 |-> NewSyscallArgs(r, table).A2]

\* the Event of one PATH record: nametype, name, and syscall and a1 of its
\* SYSCALL record
OptEvent(op, path, number, a1) ==
    [op |-> op, path |-> path,
     syscall |-> [Type |-> "SYSCALL", Msg |-> "audit(1.0:1)", Timestamp |-> <<>>,
                  Body |-> [syscall |-> number, a1 |-> a1, a2 |-> <<"0">>,
                            success |-> "yes"]]]

OptEvents ==
    {OptEvent("CREATE", PathName, <<"2">>, <<"2", "4", "1">>),
     OptEvent("NORMAL", PathNAME, <<"2">>, <<"2", "4", "1">>),
     OptEvent("NORMAL", PathNAME, <<"2">>, <<"0">>),
     OptEvent("NORMAL", PathName, <<"4", "3", "7">>, <<"0">>),
     OptEvent("UNKNOWN", PathNAME, <<"0">>, <<"0">>),
     OptEvent("DELETE", PathName, <<"0">>, <<"0">>)}

\* the Inode of the Event under the table
OptInode(ev, table) ==
    [Ino(ev.op, "100", ev.path, 0, TRUE, CwdD)
        EXCEPT !.Syscall = NewSyscallFull(ev.syscall, table)]

\* the Inodes of the Events, under either table
OptInodes == [ev \in OptEvents, table \in {NoTable, TableX86} |-> OptInode(ev, table)]

InitOpts ==
    /\ flagJson \in BOOLEAN
    /\ history = NewTimeline
    /\ reports = <<>>
    /\ stdout = <<>>
    /\ status = "run"
    /\ applied = <<>>
    /\ lines = <<>>
    /\ rs = NewRecords
    /\ inodes = <<>>
    /\ idx = 0
    /\ events = <<>>
    /\ input \in [verbose : BOOLEAN, abspath : BOOLEAN, pretty : BOOLEAN,
                  logbadopen : BOOLEAN, table : {NoTable, TableX86}]
    /\ output = <<>>

\* what FlagCreate writes with log.Print
FlagCreateLog(s) ==
    IF s.Name = "open" \/ s.Number = 2 THEN <<>>
    ELSE IF s.Name = "openat" \/ s.Number = 257 THEN <<>>
    ELSE IF s.Name = "openat2" \/ s.Number = 437
    THEN <<"openat2 flags are not handled">>
    ELSE <<>>

\* a verifyUse that returns once it has logged the use with O_CREAT
verifyUseBadOpenReturns(h, i, opts) ==
    IF ~i.Syscall.Success THEN [reports |-> <<>>, log |-> <<>>]
    ELSE IF opts.logbadopen /\ FlagCreate(i.Syscall)
    THEN [reports |-> <<>>, log |-> <<"use with O_CREAT">>]
    ELSE [reports |-> verifyUse(h, i),
          log |-> IF opts.logbadopen THEN FlagCreateLog(i.Syscall) ELSE <<>>]

\* verifyUse closure of Timeline.Apply with -logbadopen: the Reports it
\* makes and what it logs
verifyUseWithOptions(h, i, opts) ==
    IF ~i.Syscall.Success THEN [reports |-> <<>>, log |-> <<>>]
    ELSE [reports |-> verifyUse(h, i),
          log |-> IF ~opts.logbadopen THEN <<>>
                  ELSE FlagCreateLog(i.Syscall)
                         \o (IF FlagCreate(i.Syscall)
                             THEN <<"use with O_CREAT">> ELSE <<>>)]

\* Inode.String: the path by -abspath, the Msg by -verbose, the syscall by
\* its name when it has one
InodeString(i, opts) ==
    [msg |-> opts.verbose,
     syscall |-> IF i.Syscall.Name = "" THEN <<"syscall=", i.Syscall.Number>>
                 ELSE IF opts.verbose THEN <<i.Syscall.Name, i.Syscall.Number>>
                 ELSE <<i.Syscall.Name>>,
     name |-> Name(i),
     path |-> IF opts.abspath THEN NormalizedPath(i) ELSE i.Path]

\* Timeline.Report under the options: ReportLater, or ReportImmediatly
\* printing the two Inodes
ReportWithOptions(rep, opts) ==
    IF flagJson
    THEN /\ reports' = reports \o rep
         /\ UNCHANGED stdout
    ELSE /\ stdout' = stdout \o [k \in 1..Len(rep) |->
                         [kind |-> "line", Create |-> rep[k].Create,
                          Use |-> rep[k].Use,
                          text |-> <<"USE", InodeString(rep[k].Use, opts),
                                     " CREATE", InodeString(rep[k].Create, opts)>>]]
         /\ UNCHANGED reports

\* tm.Apply(i) for the Inode of one more Event of the trace
ApplyWithOptions ==
    /\ status = "run"
    /\ Len(applied) < MaxApply
    /\ \E ev \in OptEvents :
         LET i == OptInodes[ev, input.table] IN
         /\ lines' = Append(lines, ev)
         /\ applied' = Append(applied, i)
         /\ CASE i.Operation = "CREATE" ->
                   /\ history' = recordCreate(history, i)
                   /\ UNCHANGED <<reports, stdout, output>>
              [] i.Operation \in {"PARENT", "NORMAL"} ->
                   /\ ReportWithOptions(verifyUseWithOptions(history, i, input).reports,
                                        input)
                   /\ output' = output \o verifyUseWithOptions(history, i, input).log
                   /\ UNCHANGED history
              [] i.Operation = "DELETE" ->
                   /\ history' = deleteName(history, i)
                   /\ UNCHANGED <<reports, stdout, output>>
              [] i.Operation = "UNKNOWN" ->
                   /\ output' = IF input.verbose
                                THEN Append(output, "op=UNKNOWN") ELSE output
                   /\ UNCHANGED <<history, reports, stdout>>
    /\ UNCHANGED <<flagJson, status, rs, inodes, idx, events, input>>

\* ParseLog returns: tm.Close, processPendingRepots(*flagPretty)
FinishWithOptions ==
    /\ status = "run"
    /\ status' = "done"
    /\ IF Len(reports) = 0 THEN UNCHANGED stdout
       ELSE stdout' = Append(stdout, [kind |-> "json", reports |-> reports,
                                      pretty |-> input.pretty])
    /\ UNCHANGED <<flagJson, history, reports, applied, lines, rs, inodes,
                   idx, events, input, output>>

NextOpts == ApplyWithOptions \/ FinishWithOptions

SpecOpts == InitOpts /\ [][NextOpts]_vars

\* the replay of the trace by a run with every option off and no table
PlainRun ==
    Replay([history |-> NewTimeline, reports |-> <<>>, fatal |-> FALSE],
           [k \in 1..Len(lines) |-> OptInodes[lines[k], NoTable]])

\* the Inode without the name the table gave its syscall
Unnamed(i) == [i EXCEPT !.Syscall.Name = ""]

\* C38: after every PathAction, history and the Violations of a run are
\* those of the run on the same trace with -verbose, -abspath, -pretty and
\* -logbadopen off and no syscall-name table.
C38_OptionsIrrelevant ==
    /\ history = PlainRun.history
    /\ Violations = PlainRun.reports

\* C38 as amended: ... are those of that run, the syscallName of the
\* PathActions apart, which is empty without the table.
C38_OptionsIrrelevantUpToName ==
    /\ DOMAIN history = DOMAIN PlainRun.history
    /\ \A n \in DOMAIN history : Unnamed(history[n]) = PlainRun.history[n]
    /\ Len(Violations) = Len(PlainRun.reports)
    /\ \A k \in 1..Len(Violations) :
          /\ Unnamed(Violations[k].Create) = PlainRun.reports[k].Create
          /\ Unnamed(Violations[k].Use) = PlainRun.reports[k].Use

\* C38 witness: with every option on and the table populated, a use with
\* O_CREAT was logged and reported, and an UNKNOWN was logged
C38_Witness ==
    /\ input.verbose /\ input.abspath /\ input.pretty /\ input.logbadopen
    /\ input.table = TableX86
    /\ Len(applied) = 3
    /\ applied[2].Syscall.Name = "open"
    /\ output = <<"use with O_CREAT", "op=UNKNOWN">>
    /\ Len(Violations) = 1
    /\ DOMAIN history = {"08:01|100"}

(***************************************************************************)
(* The Records of successive Events (specification SpecAsm): ParseLog over *)
(* a file of up to MaxAsmLen lines with time->, SYSCALL, CWD, PROCTITLE    *)
(* and PATH lines, the PATH name being relative.                           *)
(***************************************************************************)
MaxAsmLen == 6

\* type=CWD msg=...: cwd="/d"
CwdLine ==
    [kind |-> "record", Type |-> "CWD", Msg |-> "audit(1.0:1)",
     Body |-> [cwd |-> Quote(CwdD)]]

\* type=PROCTITLE msg=...: proctitle=6C73
ProctitleLine ==
    [kind |-> "record", Type |-> "PROCTITLE", Msg |-> "audit(1.0:1)",
     Body |-> [proctitle |-> "6C73"]]

AsmLines ==
    {AuditdSep, TimeLine(Time1), SyscallLine("yes"), CwdLine, ProctitleLine,
     PathLine("NORMAL", PathRel)}

ReadAsmFile ==
    /\ status = "run" /\ input = <<>>
    /\ \E n \in 1..MaxAsmLen : input' \in [1..n -> AsmLines]
    /\ UNCHANGED <<flagJson, history, reports, stdout, status, applied, lines,
                   rs, inodes, idx, events, output>>

NextAsm == ReadAsmFile \/ FileAddLine \/ FileSeparator \/ ApplyNext \/ FileFinish

SpecAsm == InitFile /\ [][NextAsm]_vars

\* the Event has a line of the kind
HasLineOfKind(ev, kind, type) ==
    \E k \in 1..Len(ev) :
        ev[k].kind = kind /\ (kind = "record" => ev[k].Type = type)

\* C39: the Inodes GetInodes returned for an Event are those of the Records
\* of the lines of that Event alone: without a CWD line of its own an Inode
\* has no working directory, without a time-> line of its own no timestamp;
\* and between two lines the assembler holds the Records of the lines read
\* since the last separator, and nothing else.
C39_OwnEventOnly ==
    LET evs == ClosedEvents(lines) IN
    /\ Len(events) <= Len(evs)
    /\ \A e \in 1..Len(events) :
          /\ events[e] = GetInodes(EventRecords(NewRecords, evs[e]))
          /\ HasLineOfKind(evs[e], "record", "SYSCALL")
                \/ events[e] = <<>>
          /\ \A k \in 1..Len(events[e]) :
                /\ ~HasLineOfKind(evs[e], "record", "CWD")
                      => events[e][k].Cwd = <<>>
                /\ ~HasLineOfKind(evs[e], "time", "")
                      => events[e][k].Timestamp = <<>>
    /\ (status = "run" /\ inodes = <<>> /\ input # <<>>) =>
          rs = EventRecords(NewRecords, OpenEvent(lines))

\* C39 witness: after an Event with a time-> and a CWD line, the Inode of
\* an Event with neither has no timestamp and no working directory
C39_Witness ==
    /\ lines = <<TimeLine(Time1), CwdLine, AuditdSep,
                 SyscallLine("yes"), PathLine("NORMAL", PathRel), AuditdSep>>
    /\ inodes = <<>>
    /\ Len(events) = 2
    /\ Len(applied) = 1
    /\ applied[1].Cwd = <<>>
    /\ applied[1].Timestamp = <<>>
    /\ NormalizedPath(applied[1]) = PathRel

=============================================================================
